---------------------------- MODULE Spec2Model ----------------------------
(***************************************************************************)
(* DeviceHub cloud: the hub's registry (device records, command queues,    *)
(* live connections) and the HTTP / WebSocket handlers that act on it.     *)
(*                                                                         *)
(* Three hubs live in src/server.js, never composed:                       *)
(*   - the token-gated poll hub   (src/server.js:1-391)                    *)
(*   - the push (WebSocket) hub   (src/server.js:393-474)                  *)
(*   - the simple poll hub        (src/server.js:476-680)                  *)
(* src/unnamed/part_002 and part_004 are push hubs that require a          *)
(* deviceId on upgrade.  src/unnamed/part_001 is a token-gated poll hub    *)
(* without POST /api/ps that counts the ids it has seen and deleted and    *)
(* reports the counts on GET /stats.  src/agent.ps1 is the polling agent   *)
(* of one device.                                                          *)
(*                                                                         *)
(* JavaScript strings are modelled as sequences of one-character strings,  *)
(* so that trim, startsWith, slice and split compute what the code         *)
(* computes.  Every handler runs to completion (one action per request).   *)
(* A handler is an action (what it does to the registry) together with a   *)
(* response operator (the status and body it answers with in the current   *)
(* state).                                                                 *)
(***************************************************************************)
EXTENDS Integers, Sequences, FiniteSets, TLC

VARIABLES
  variant,      \* which hub is running: "gated", "simple" (poll) or a push hub
  ADMIN_TOKEN,  \* the configured operator token (trimmed), <<>> when unset
  queues,       \* Map deviceId -> [commands...]            (a function)
  devices,      \* Map deviceId -> record, in insertion order (a sequence)
  now,          \* Date.now(), in ms since the hub started
  conns,        \* push hub: Map id -> ws (the index of the ws in sockets)
  sockets,      \* push hub: every ws accepted so far, in order of acceptance:
                \* the id its handlers closed over, readyState, frames sent
  STATS_TOKEN,  \* stats hub: the configured stats token (trimmed)
  everSeen,     \* stats hub: Set of the ids markSeen was called for
  deletedSet,   \* stats hub: Set of the ids the operator deleted
  pc,           \* agent: where the polling loop stands
  resp,         \* agent: $resp, what the last pull returned
  tmp,          \* agent: $tmp, the temporary script file of Run-PSB64
  files         \* agent: the files in C:\ProgramData\DeviceHub

vars ==
  <<variant, ADMIN_TOKEN, queues, devices, now, conns, sockets,
    STATS_TOKEN, everSeen, deletedSet, pc, resp, tmp, files>>
pollVars == <<ADMIN_TOKEN, queues, devices, now>>
pushVars == <<conns, sockets>>
statsVars == <<STATS_TOKEN, everSeen, deletedSet>>
agentVars == <<pc, resp, tmp, files>>

---------------------------------------------------------------------------
(* Bounds of the model *)

MaxQueue == 2
MaxNow == 30001
MaxSockets == 2
MaxFrames == 1

(* Program constants *)

ONLINE_WINDOW_MS == 30000

\* $PollSec of the polling agent (src/agent.ps1:8)
PollSec == 5

---------------------------------------------------------------------------
(* JavaScript values *)

\* undefined (an absent query parameter, header or body field) and null:
\* values that equal no string
undefined == <<"undefined">>
null == <<"null">>

\* !v for a value that is a string, undefined or null
Falsy(v) == v = undefined \/ v = null \/ v = <<>>

\* a || b
OrElse(a, b) == IF Falsy(a) THEN b ELSE a

\* a ?? b
Coalesce(a, b) == IF a = undefined \/ a = null THEN b ELSE a

RECURSIVE TrimStart(_)
TrimStart(s) ==
  IF s # <<>> /\ Head(s) = " " THEN TrimStart(Tail(s)) ELSE s

RECURSIVE TrimEnd(_)
TrimEnd(s) ==
  IF s # <<>> /\ s[Len(s)] = " " THEN TrimEnd(SubSeq(s, 1, Len(s) - 1)) ELSE s

\* String.prototype.trim
trim(s) == TrimEnd(TrimStart(s))

\* String.prototype.startsWith
startsWith(s, p) == Len(s) >= Len(p) /\ SubSeq(s, 1, Len(p)) = p

\* String.prototype.slice(n), n >= 0
slice(s, n) == SubSeq(s, n + 1, Len(s))

\* s.split(",")[0]
RECURSIVE FirstField(_)
FirstField(s) ==
  IF s = <<>> \/ Head(s) = "," THEN <<>> ELSE <<Head(s)>> \o FirstField(Tail(s))

Bearer == <<"B", "e", "a", "r", "e", "r", " ">>

---------------------------------------------------------------------------
(* Registry: src/server.js:17-50 *)

\* Map.has / Map.get on a device map d
HasDevice(d, id) == \E i \in 1..Len(d) : d[i].id = id
DeviceIndex(d, id) == CHOOSE i \in 1..Len(d) : d[i].id = id
GetDevice(d, id) == d[DeviceIndex(d, id)]
DeviceIds(d) == {d[i].id : i \in 1..Len(d)}

\* Map.set: an existing key keeps its place, a new key goes last
SetDevice(d, rec) ==
  IF HasDevice(d, rec.id)
  THEN [d EXCEPT ![DeviceIndex(d, rec.id)] = rec]
  ELSE Append(d, rec)

\* Map.delete on a device map
\* a delete that would empty the whole device map
RemoveDeviceAll(d, id) == <<>>

RemoveDevice(d, id) == SelectSeq(d, LAMBDA x : x.id # id)

\* queues after enqueue(deviceId, command)
enqueue(q, deviceId, command) ==
  LET q1 == IF deviceId \in DOMAIN q THEN q ELSE (deviceId :> <<>>) @@ q
  IN  [q1 EXCEPT ![deviceId] = Append(@, command)]

\* a dequeue that would hand out the newest command first (LIFO)
dequeuedNewest(q, deviceId) ==
  IF deviceId \notin DOMAIN q THEN null
  ELSE IF Len(q[deviceId]) = 0 THEN null
  ELSE q[deviceId][Len(q[deviceId])]

\* what dequeue(deviceId) returns
dequeued(q, deviceId) ==
  IF deviceId \notin DOMAIN q THEN null
  ELSE IF Len(q[deviceId]) = 0 THEN null
  ELSE Head(q[deviceId])

\* a dequeue that would drop everything pending once the device pulls
dequeueAll(q, deviceId) ==
  IF deviceId \notin DOMAIN q THEN q ELSE [q EXCEPT ![deviceId] = <<>>]

\* a dequeue that would hand out the head and leave it in the queue
dequeueKept(q, deviceId) == q

\* queues after dequeue(deviceId)
dequeue(q, deviceId) ==
  IF deviceId \notin DOMAIN q THEN q
  ELSE IF Len(q[deviceId]) = 0 THEN q
  ELSE [q EXCEPT ![deviceId] = Tail(@)]

\* Map.delete on a function
MapDelete(m, k) == [x \in DOMAIN m \ {k} |-> m[x]]

\* a clientIp that would prefer the socket's address to the header
clientIpSocketFirst(req) ==
  LET xff == IF req.xff = undefined THEN undefined ELSE FirstField(req.xff)
      first == trim(OrElse(xff, <<>>))
  IN  OrElse(OrElse(req.remoteAddress, first), <<>>)

\* clientIp(req): first x-forwarded-for entry, else the socket's address
clientIp(req) ==
  LET xff == IF req.xff = undefined THEN undefined ELSE FirstField(req.xff)
      first == trim(OrElse(xff, <<>>))
  IN  OrElse(OrElse(first, req.remoteAddress), <<>>)

\* devices.get(id) || { id, ip: "", hostname: "", username: "", os: "", lastSeen: 0 }
Existing(d, id) ==
  IF HasDevice(d, id) THEN GetDevice(d, id)
  ELSE [id |-> id, ip |-> <<>>, hostname |-> <<>>, username |-> <<>>,
        os |-> <<>>, lastSeen |-> 0]

\* clientIp(req) || devices.get(id)?.ip || ""
SeenIp(d, id, req) ==
  OrElse(OrElse(clientIp(req),
                IF HasDevice(d, id) THEN GetDevice(d, id).ip ELSE undefined),
         <<>>)

\* a markSeen that would store only what the request supplies
seenRecordFresh(d, t, id, req, partial) ==
  [id |-> id,
   ip |-> clientIp(req),
   hostname |-> OrElse(partial.hostname, <<>>),
   username |-> OrElse(partial.username, <<>>),
   os |-> OrElse(partial.os, <<>>),
   lastSeen |-> t]

\* the record markSeen stores, token-gated hub (src/server.js:38-50)
seenRecordGated(d, t, id, req, partial) ==
  [id |-> id,
   ip |-> OrElse(SeenIp(d, id, req), Existing(d, id).ip),
   hostname |-> OrElse(Coalesce(partial.hostname, Existing(d, id).hostname), <<>>),
   username |-> OrElse(Coalesce(partial.username, Existing(d, id).username), <<>>),
   os |-> OrElse(Coalesce(partial.os, Existing(d, id).os), <<>>),
   lastSeen |-> t]

\* the record markSeen stores, simple poll hub (src/server.js:510-522)
seenRecordSimple(d, t, id, req, partial) ==
  [id |-> id,
   ip |-> OrElse(SeenIp(d, id, req), Existing(d, id).ip),
   hostname |-> OrElse(partial.hostname, Existing(d, id).hostname),
   username |-> OrElse(partial.username, Existing(d, id).username),
   os |-> OrElse(partial.os, Existing(d, id).os),
   lastSeen |-> t]

\* the device map after markSeen(id, req, partial) at time t
seen(d, t, id, req, partial) ==
  IF variant = "simple"
  THEN SetDevice(d, seenRecordSimple(d, t, id, req, partial))
  ELSE SetDevice(d, seenRecordGated(d, t, id, req, partial))

\* a markSeen that would first forget the records that have gone stale
markSeenExpiring(id, req, partial) ==
  seen(SelectSeq(devices, LAMBDA info : now - info.lastSeen <= ONLINE_WINDOW_MS),
       now, id, req, partial)

\* devices after markSeen(id, req, partial): const now = Date.now()
markSeen(id, req, partial) == seen(devices, now, id, req, partial)

NoPartial == [hostname |-> undefined, username |-> undefined, os |-> undefined]

---------------------------------------------------------------------------
(* Admin auth helper: src/server.js:53-59 *)

\* a requireAdmin that would compare tokens without the ADMIN_TOKEN check
requireAdminCompareOnly(headers) ==
  LET h == trim(OrElse(OrElse(headers.xAdminToken, headers.authorization), <<>>))
      token == IF startsWith(h, Bearer) THEN slice(h, 7) ELSE h
  IN  token = ADMIN_TOKEN

\* whether requireAdmin lets the request through (calls next())
requireAdmin(headers) ==
  LET h == trim(OrElse(OrElse(headers.xAdminToken, headers.authorization), <<>>))
      token == IF startsWith(h, Bearer) THEN slice(h, 7) ELSE h
  IN  ADMIN_TOKEN # <<>> /\ token = ADMIN_TOKEN

\* the simple poll hub mounts its routes without requireAdmin
Admitted(headers) == variant = "simple" \/ requireAdmin(headers)

---------------------------------------------------------------------------
(* PowerShell -EncodedCommand: src/server.js:98-102 *)

\* UTF-16 code units of the characters scripts are written in
CharCode(c) ==
  CASE c = "\n" -> 10
    [] c = "\r" -> 13
    [] c = " " -> 32
    [] c = "-" -> 45
    [] c = "D" -> 68
    [] c = "G" -> 71
    [] c = "a" -> 97
    [] c = "e" -> 101
    [] c = "t" -> 116

\* script.replace(/\r\n/g, "\n")
RECURSIVE NormalizeNewlines(_)
NormalizeNewlines(s) ==
  IF s = <<>> THEN <<>>
  ELSE IF Len(s) >= 2 /\ s[1] = "\r" /\ s[2] = "\n"
       THEN <<"\n">> \o NormalizeNewlines(SubSeq(s, 3, Len(s)))
       ELSE <<Head(s)>> \o NormalizeNewlines(Tail(s))

\* Buffer.from(s, "utf16le"): two bytes per code unit, low byte first
RECURSIVE Utf16leBytes(_)
Utf16leBytes(s) ==
  IF s = <<>> THEN <<>>
  ELSE <<CharCode(Head(s)) % 256, CharCode(Head(s)) \div 256>>
         \o Utf16leBytes(Tail(s))

Base64Alphabet ==
  <<"A", "B", "C", "D", "E", "F", "G", "H", "I", "J", "K", "L", "M",
  "N", "O", "P", "Q", "R", "S", "T", "U", "V", "W", "X", "Y", "Z", "a",
  "b", "c", "d", "e", "f", "g", "h", "i", "j", "k", "l", "m", "n", "o",
  "p", "q", "r", "s", "t", "u", "v", "w", "x", "y", "z", "0", "1", "2",
  "3", "4", "5", "6", "7", "8", "9", "+", "/">>

\* buffer.toString("base64")
RECURSIVE Base64(_)
Base64(bytes) ==
  LET n == Len(bytes)
      b1 == bytes[1]
      b2 == IF n >= 2 THEN bytes[2] ELSE 0
      b3 == IF n >= 3 THEN bytes[3] ELSE 0
      c1 == Base64Alphabet[(b1 \div 4) + 1]
      c2 == Base64Alphabet[((b1 % 4) * 16 + (b2 \div 16)) + 1]
      c3 == Base64Alphabet[((b2 % 16) * 4 + (b3 \div 64)) + 1]
      c4 == Base64Alphabet[(b3 % 64) + 1]
  IN  IF n = 0 THEN <<>>
      ELSE IF n = 1 THEN <<c1, c2, "=", "=">>
      ELSE IF n = 2 THEN <<c1, c2, c3, "=">>
      ELSE <<c1, c2, c3, c4>> \o Base64(SubSeq(bytes, 4, n))

psEncodedCommand(script) == Base64(Utf16leBytes(NormalizeNewlines(script)))

PsCommandLine ==
  <<"p", "o", "w", "e", "r", "s", "h", "e", "l", "l", " ", "-", "N",
  "o", "L", "o", "g", "o", " ", "-", "N", "o", "P", "r", "o", "f", "i",
  "l", "e", " ", "-", "E", "x", "e", "c", "u", "t", "i", "o", "n", "P",
  "o", "l", "i", "c", "y", " ", "B", "y", "p", "a", "s", "s", " ", "-",
  "E", "n", "c", "o", "d", "e", "d", "C", "o", "m", "m", "a", "n", "d",
  " ">>

---------------------------------------------------------------------------
(* Poll hubs: the request handlers *)

EmptyMap == [k \in {} |-> <<>>]

IsPoll == variant \in {"gated", "simple", "stats"}

\* GET /api/pull (src/server.js:67-73, 530-537)
PullId(query) == trim(OrElse(query.deviceId, <<>>))

PullResponse(query) ==
  IF Falsy(PullId(query))
  THEN [status |-> 400, error |-> "deviceId required"]
  ELSE [status |-> 200,
        command |-> Coalesce(dequeued(queues, PullId(query)), null)]

\* a pull that would not call markSeen
PullDevicesUnseen(query, req) == devices

\* the device map and the queue map the handler leaves
PullDevices(query, req) ==
  IF PullResponse(query).status = 400 THEN devices
  ELSE markSeen(PullId(query), req, NoPartial)

PullQueues(query) ==
  IF PullResponse(query).status = 400 THEN queues
  ELSE dequeue(queues, PullId(query))

\* a markSeen that would not remember the id
PullEverSeenNever(query) == everSeen

\* everSeen.add(id) in markSeen (src/unnamed/part_001:52)
PullEverSeen(query) ==
  IF variant = "stats" /\ PullResponse(query).status = 200
  THEN everSeen \cup {PullId(query)}
  ELSE everSeen

Pull(query, req) ==
  /\ IsPoll
  /\ devices' = PullDevices(query, req)
  /\ queues' = PullQueues(query)
  /\ everSeen' = PullEverSeen(query)
  /\ UNCHANGED <<variant, ADMIN_TOKEN, now, STATS_TOKEN, deletedSet>>
  /\ UNCHANGED <<pushVars, agentVars>>

\* POST /api/heartbeat (src/server.js:77-82, 541-546)
HeartbeatId(body) == trim(body.deviceId)

HeartbeatPartial(body) ==
  [hostname |-> body.hostname, username |-> body.username, os |-> body.os]

HeartbeatResponse(body) ==
  IF Falsy(body.deviceId)
  THEN [status |-> 400, error |-> "deviceId required"]
  ELSE [status |-> 200, ok |-> TRUE]

\* the device map the handler leaves
HeartbeatDevices(body, req) ==
  IF HeartbeatResponse(body).status = 400 THEN devices
  ELSE markSeen(HeartbeatId(body), req, HeartbeatPartial(body))

\* the handler touches no queue
HeartbeatQueues(body) == queues

HeartbeatEverSeen(body) ==
  IF variant = "stats" /\ HeartbeatResponse(body).status = 200
  THEN everSeen \cup {HeartbeatId(body)}
  ELSE everSeen

Heartbeat(body, req) ==
  /\ IsPoll
  /\ devices' = HeartbeatDevices(body, req)
  /\ queues' = HeartbeatQueues(body)
  /\ everSeen' = HeartbeatEverSeen(body)
  /\ UNCHANGED <<variant, ADMIN_TOKEN, now, STATS_TOKEN, deletedSet>>
  /\ UNCHANGED <<pushVars, agentVars>>

\* the queue of deviceId may take one more command (the model's bound)
Room(deviceId) ==
  deviceId \in DOMAIN queues => Len(queues[deviceId]) < MaxQueue

\* a POST /api/command that would require the deviceId only
PostCommandResponseIdOnly(headers, body) ==
  IF ~Admitted(headers)
  THEN [status |-> 401, error |-> "auth_required"]
  ELSE IF Falsy(body.deviceId)
  THEN [status |-> 400, error |-> "deviceId and command are required"]
  ELSE [status |-> 200, ok |-> TRUE]

\* POST /api/command (src/server.js:88-95, 549-556)
PostCommandResponse(headers, body) ==
  IF ~Admitted(headers)
  THEN [status |-> 401, error |-> "auth_required"]
  ELSE IF Falsy(body.deviceId) \/ Falsy(body.command)
  THEN [status |-> 400, error |-> "deviceId and command are required"]
  ELSE [status |-> 200, ok |-> TRUE]

\* the queue map the handler leaves
PostCommandQueues(headers, body) ==
  IF PostCommandResponse(headers, body).status # 200 THEN queues
  ELSE enqueue(queues, body.deviceId, body.command)

\* a POST /api/command that would count as a contact of the device
PostCommandDevicesSeen(headers, body) ==
  IF PostCommandResponse(headers, body).status # 200 THEN devices
  ELSE seen(devices, now, body.deviceId,
            [xff |-> undefined, remoteAddress |-> undefined], NoPartial)

\* the handler does not call markSeen
PostCommandDevices(headers, body) == devices

PostCommand(headers, body) ==
  /\ IsPoll
  /\ PostCommandResponse(headers, body).status = 200 => Room(body.deviceId)
  /\ queues' = PostCommandQueues(headers, body)
  /\ devices' = PostCommandDevices(headers, body)
  /\ UNCHANGED <<variant, ADMIN_TOKEN, now>>
  /\ UNCHANGED <<pushVars, statsVars, agentVars>>

\* POST /api/ps (src/server.js:105-115)
PsQueued(script) == PsCommandLine \o psEncodedCommand(script)

PostPsResponse(headers, body) ==
  IF ~requireAdmin(headers)
  THEN [status |-> 401, error |-> "auth_required"]
  ELSE IF Falsy(body.deviceId) \/ Falsy(body.script)
  THEN [status |-> 400, error |-> "deviceId and script are required"]
  ELSE [status |-> 200, ok |-> TRUE]

\* the queue map the handler leaves
PostPsQueues(headers, body) ==
  IF PostPsResponse(headers, body).status # 200 THEN queues
  ELSE enqueue(queues, body.deviceId, PsQueued(body.script))

\* the handler does not call markSeen
PostPsDevices(headers, body) == devices

PostPs(headers, body) ==
  /\ variant = "gated"
  /\ PostPsResponse(headers, body).status = 200 => Room(body.deviceId)
  /\ queues' = PostPsQueues(headers, body)
  /\ devices' = PostPsDevices(headers, body)
  /\ UNCHANGED <<variant, ADMIN_TOKEN, now>>
  /\ UNCHANGED <<pushVars, statsVars, agentVars>>

\* a presence test that would end the window one millisecond early
onlineStrict(info, t) == t - info.lastSeen < ONLINE_WINDOW_MS

\* const online = now - info.lastSeen <= ONLINE_WINDOW_MS
online(info, t) == t - info.lastSeen <= ONLINE_WINDOW_MS

\* list.sort((a, b) => b.lastSeen - a.lastSeen): stable, newest first
RECURSIVE InsertNewestFirst(_, _)
InsertNewestFirst(list, x) ==
  IF list = <<>> THEN <<x>>
  ELSE IF Head(list).lastSeen >= x.lastSeen
       THEN <<Head(list)>> \o InsertNewestFirst(Tail(list), x)
       ELSE <<x>> \o list

RECURSIVE SortNewestFirst(_)
SortNewestFirst(list) ==
  IF list = <<>> THEN <<>>
  ELSE InsertNewestFirst(SortNewestFirst(SubSeq(list, 1, Len(list) - 1)),
                         list[Len(list)])

\* { ...info, online }
Listed(info, t) ==
  [id |-> info.id, ip |-> info.ip, hostname |-> info.hostname,
   username |-> info.username, os |-> info.os, lastSeen |-> info.lastSeen,
   online |-> online(info, t)]

\* a list that would be returned in the order the records are stored
DeviceListUnsorted(d, t) == [i \in 1..Len(d) |-> Listed(d[i], t)]

\* the list GET /api/devices builds from a device map d at time t
DeviceList(d, t) == SortNewestFirst([i \in 1..Len(d) |-> Listed(d[i], t)])

\* GET /api/devices (src/server.js:118-127, 559-569)
GetDevicesResponse(headers) ==
  IF Admitted(headers)
  THEN [status |-> 200, devices |-> DeviceList(devices, now)]
  ELSE [status |-> 401, error |-> "auth_required"]

GetDevices(headers) ==
  /\ IsPoll
  /\ UNCHANGED <<variant, ADMIN_TOKEN, now, queues, devices>>
  /\ UNCHANGED <<pushVars, statsVars, agentVars>>

\* DELETE /api/devices/:deviceId (src/server.js:130-136)
DeleteId(param) == trim(OrElse(param, <<>>))

DeleteDeviceResponse(headers, param) ==
  IF ~requireAdmin(headers)
  THEN [status |-> 401, error |-> "auth_required"]
  ELSE IF Falsy(DeleteId(param))
  THEN [status |-> 400, error |-> "deviceId required"]
  ELSE [status |-> 200, ok |-> TRUE]

\* a DELETE that would keep the queue of the removed device
DeleteQueuesKept(headers, param) == queues

\* a DELETE that would keep the record of the device
DeleteDevicesKept(headers, param) == devices

\* the device map and the queue map the handler leaves
DeleteDevices(headers, param) ==
  IF DeleteDeviceResponse(headers, param).status # 200 THEN devices
  ELSE RemoveDevice(devices, DeleteId(param))

DeleteQueues(headers, param) ==
  IF DeleteDeviceResponse(headers, param).status # 200 THEN queues
  ELSE MapDelete(queues, DeleteId(param))

\* deletedSet.add(id) (src/unnamed/part_001:120)
DeleteDeletedSet(headers, param) ==
  IF variant = "stats" /\ DeleteDeviceResponse(headers, param).status = 200
  THEN deletedSet \cup {DeleteId(param)}
  ELSE deletedSet

DeleteDevice(headers, param) ==
  /\ variant \in {"gated", "stats"}
  /\ devices' = DeleteDevices(headers, param)
  /\ queues' = DeleteQueues(headers, param)
  /\ deletedSet' = DeleteDeletedSet(headers, param)
  /\ UNCHANGED <<variant, ADMIN_TOKEN, now, STATS_TOKEN, everSeen>>
  /\ UNCHANGED <<pushVars, agentVars>>

\* a view that would leave out the queues that are empty
QueueViewNonEmpty(q) == [k \in {x \in DOMAIN q : q[x] # <<>>} |-> Len(q[k])]

\* GET /api/queues (src/server.js:139-143, 572-576)
QueueView(q) == [k \in DOMAIN q |-> Len(q[k])]

GetQueuesResponse(headers) ==
  IF Admitted(headers)
  THEN [status |-> 200, view |-> QueueView(queues)]
  ELSE [status |-> 401, error |-> "auth_required"]

GetQueues(headers) ==
  /\ IsPoll
  /\ UNCHANGED <<variant, ADMIN_TOKEN, now, queues, devices>>
  /\ UNCHANGED <<pushVars, statsVars, agentVars>>

\* time passes between two requests: Date.now() advances by d ms
Tick(d) ==
  /\ now + d <= MaxNow
  /\ now' = now + d
  /\ UNCHANGED <<variant, ADMIN_TOKEN, queues, devices>>
  /\ UNCHANGED <<pushVars, statsVars, agentVars>>

---------------------------------------------------------------------------
(* The requests the model sends *)

A == <<"A">>
B == <<"B">>
Secret == <<"s", "3">>
C1 == <<"c", "1">>
C2 == <<"c", "2">>
GetDate == <<"G", "e", "t", "-", "D", "a", "t", "e">>

\* process.env.ADMIN_TOKEN
EnvTokens == {undefined, <<" ", "s", "3", " ">>}

NoHeaders == [xAdminToken |-> undefined, authorization |-> undefined]

\* x-admin-token / authorization headers a request may carry
AllHeaders ==
  {NoHeaders,
   [xAdminToken |-> <<>>, authorization |-> undefined],
   [xAdminToken |-> Secret, authorization |-> undefined],
   [xAdminToken |-> <<" ", "s", "3">>, authorization |-> undefined],
   [xAdminToken |-> <<"s", "4">>, authorization |-> undefined],
   [xAdminToken |-> undefined, authorization |-> <<>>],
   [xAdminToken |-> undefined, authorization |-> Secret],
   [xAdminToken |-> undefined, authorization |-> Bearer \o Secret],
   [xAdminToken |-> undefined, authorization |-> Bearer],
   [xAdminToken |-> undefined, authorization |-> Bearer \o <<"s", "4">>]}

\* the headers of the requests that are sent
Headers ==
  {NoHeaders, [xAdminToken |-> undefined, authorization |-> Bearer \o Secret]}

\* x-forwarded-for and the socket's remote address
Proxied == [xff |-> <<"1", ",", "2">>, remoteAddress |-> <<"9">>]
Direct == [xff |-> undefined, remoteAddress |-> <<"9">>]
NoAddress == [xff |-> undefined, remoteAddress |-> undefined]
Reqs == {Proxied}

PullQueries ==
  {[deviceId |-> d] : d \in {undefined, <<" ">>, A, <<" ", "A", " ">>, B}}

Named == [hostname |-> <<"h">>, username |-> <<"u">>, os |-> <<"w">>]
Partials == {NoPartial, Named}

HeartbeatBody(d, p) ==
  [deviceId |-> d, hostname |-> p.hostname, username |-> p.username,
   os |-> p.os]

HeartbeatBodies ==
  {HeartbeatBody(A, p) : p \in Partials}
    \cup {HeartbeatBody(B, Named), HeartbeatBody(undefined, Named)}

Commands == {C1, C2}

CommandBodies ==
  {[deviceId |-> A, command |-> c] : c \in Commands}
    \cup {[deviceId |-> undefined, command |-> C1],
          [deviceId |-> A, command |-> undefined],
          [deviceId |-> A, command |-> <<>>]}

PsBodies ==
  {[deviceId |-> B, script |-> GetDate],
   [deviceId |-> undefined, script |-> GetDate],
   [deviceId |-> B, script |-> undefined]}

DeleteParams == {A, B, <<" ">>}

TickSteps == {ONLINE_WINDOW_MS, ONLINE_WINDOW_MS + 1}

---------------------------------------------------------------------------
(* The poll hubs *)

Init ==
  /\ variant \in {"gated", "simple"}
  /\ \E env \in EnvTokens :
       ADMIN_TOKEN = IF variant = "gated" THEN trim(OrElse(env, <<>>)) ELSE <<>>
  /\ queues = EmptyMap
  /\ devices = <<>>
  /\ now = 0
  /\ conns = EmptyMap
  /\ sockets = <<>>
  /\ STATS_TOKEN = <<>> /\ everSeen = {} /\ deletedSet = {}
  /\ pc = "stopped" /\ resp = [null |-> TRUE] /\ tmp = "" /\ files = {}

Next ==
  \/ \E q \in PullQueries, r \in Reqs : Pull(q, r)
  \/ \E b \in HeartbeatBodies, r \in Reqs : Heartbeat(b, r)
  \/ \E h \in Headers, b \in CommandBodies : PostCommand(h, b)
  \/ \E h \in Headers, b \in PsBodies : PostPs(h, b)
  \/ \E h \in Headers : GetDevices(h)
  \/ \E h \in Headers, p \in DeleteParams : DeleteDevice(h, p)
  \/ \E h \in Headers : GetQueues(h)
  \/ \E d \in TickSteps : Tick(d)

Spec == Init /\ [][Next]_vars

(* The poll hubs again, with fewer commands and with every kind of device *)
(* metadata and network address                                            *)

MetaReqs == {Proxied, Direct, NoAddress}

MetaPartials ==
  {NoPartial, Named,
   [hostname |-> <<>>, username |-> undefined, os |-> undefined],
   [hostname |-> undefined, username |-> <<"v">>, os |-> undefined]}

MetaHeartbeatBodies ==
  {HeartbeatBody(A, p) : p \in MetaPartials}
    \cup {HeartbeatBody(B, Named), HeartbeatBody(undefined, Named)}

MetaPullQueries == {[deviceId |-> d] : d \in {undefined, A, <<" ", "A", " ">>, B}}

MetaCommandBodies == {[deviceId |-> A, command |-> C1]}

NextMeta ==
  \/ \E q \in MetaPullQueries, r \in MetaReqs : Pull(q, r)
  \/ \E b \in MetaHeartbeatBodies, r \in MetaReqs : Heartbeat(b, r)
  \/ \E h \in Headers, b \in MetaCommandBodies : PostCommand(h, b)
  \/ \E h \in Headers : GetDevices(h)
  \/ \E h \in Headers : DeleteDevice(h, A)
  \/ \E h \in Headers : GetQueues(h)
  \/ \E d \in TickSteps : Tick(d)

SpecMeta == Init /\ [][NextMeta]_vars

(* The poll hubs again, addressed with device ids that carry white space *)

Padded == <<" ", "A", " ">>
Blank == <<" ">>

KeyPullQueries == {[deviceId |-> d] : d \in {A, Padded, Blank}}

KeyHeartbeatBodies ==
  {HeartbeatBody(A, Named), HeartbeatBody(Padded, NoPartial),
   HeartbeatBody(Blank, Named)}

KeyCommandBodies == {[deviceId |-> d, command |-> C1] : d \in {A, Padded, Blank}}

KeyDeleteParams == {A, Padded, Blank}

NextKeys ==
  \/ \E q \in KeyPullQueries, r \in Reqs : Pull(q, r)
  \/ \E b \in KeyHeartbeatBodies, r \in Reqs : Heartbeat(b, r)
  \/ \E h \in Headers, b \in KeyCommandBodies : PostCommand(h, b)
  \/ \E h \in Headers : GetDevices(h)
  \/ \E h \in Headers, p \in KeyDeleteParams : DeleteDevice(h, p)
  \/ \E h \in Headers : GetQueues(h)

SpecKeys == Init /\ [][NextKeys]_vars

---------------------------------------------------------------------------
(* Push hubs: src/server.js:393-474 ("push": any path, fallback id),       *)
(* src/unnamed/part_002 ("pushStrict": any path, deviceId required) and    *)
(* src/unnamed/part_004 ("pushWs": path /ws, deviceId required)            *)

IsPush == variant \in {"push", "pushStrict", "pushWs"}

WsPath == <<"/", "w", "s">>
Unknown == <<"u", "n", "k", "n", "o", "w", "n">>

\* the id the upgrade handler resolves; hex is crypto.randomBytes(3).toString("hex")
UpgradeId(request, hex) ==
  LET id == trim(OrElse(request.deviceId, <<>>))
      xff == OrElse(OrElse(request.xff, request.remoteAddress), Unknown)
  IN  IF Falsy(id) /\ variant = "push" THEN xff \o <<"-">> \o hex ELSE id

\* whether the upgrade handler hands the socket to wss.handleUpgrade
UpgradeAccepted(request) ==
  CASE variant = "push" -> TRUE
    [] variant = "pushStrict" -> ~Falsy(trim(OrElse(request.deviceId, <<>>)))
    [] variant = "pushWs" ->
         /\ request.pathname = WsPath
         /\ ~Falsy(trim(OrElse(request.deviceId, <<>>)))

\* the ids of all connections accepted so far
AssignedIds == {sockets[i].id : i \in 1..Len(sockets)}

\* a connection handler that would keep the entry an id already has
UpgradeConnsKeepFirst(request, hex) ==
  IF ~UpgradeAccepted(request) THEN conns
  ELSE conns @@ (UpgradeId(request, hex) :> (Len(sockets) + 1))

\* server.on("upgrade") and, when accepted, wss.on("connection"):
\* devices.set(id, ws)
\* the sockets and the connection map the handlers leave
UpgradeSockets(request, hex) ==
  IF ~UpgradeAccepted(request) THEN sockets
  ELSE Append(sockets, [id |-> UpgradeId(request, hex),
                        readyState |-> "OPEN",
                        frames |-> <<>>])

UpgradeConns(request, hex) ==
  IF ~UpgradeAccepted(request) THEN conns
  ELSE (UpgradeId(request, hex) :> (Len(sockets) + 1)) @@ conns

Upgrade(request, hex) ==
  /\ IsPush
  /\ UpgradeAccepted(request) => Len(sockets) < MaxSockets
  /\ sockets' = UpgradeSockets(request, hex)
  /\ conns' = UpgradeConns(request, hex)
  /\ UNCHANGED <<variant, ADMIN_TOKEN, queues, devices, now>>
  /\ UNCHANGED <<statsVars, agentVars>>

\* the closing handshake starts (either side): readyState leaves OPEN
BeginClose(i) ==
  /\ IsPush
  /\ sockets[i].readyState = "OPEN"
  /\ sockets' = [sockets EXCEPT ![i].readyState = "CLOSING"]
  /\ UNCHANGED <<variant, ADMIN_TOKEN, queues, devices, now, conns>>
  /\ UNCHANGED <<statsVars, agentVars>>

\* what ws.on("close") leaves of the connection map: devices.delete(id)
closed(m, id) == MapDelete(m, id)

\* the socket is gone and its "close" event is handled
CloseConns(i) == closed(conns, sockets[i].id)

CloseEvent(i) ==
  /\ IsPush
  /\ sockets[i].readyState # "CLOSED"
  /\ sockets' = [sockets EXCEPT ![i].readyState = "CLOSED"]
  /\ conns' = CloseConns(i)
  /\ UNCHANGED <<variant, ADMIN_TOKEN, queues, devices, now>>
  /\ UNCHANGED <<statsVars, agentVars>>

\* a connection test that would not look at readyState
NotRegistered(deviceId) == deviceId \notin DOMAIN conns

\* !ws || ws.readyState !== ws.OPEN
NotConnected(deviceId) ==
  \/ deviceId \notin DOMAIN conns
  \/ sockets[conns[deviceId]].readyState # "OPEN"

\* POST /api/command of a push hub; throws: ws.send throws
PushCommandResponse(body, throws) ==
  IF Falsy(body.deviceId) \/ Falsy(body.command)
  THEN [status |-> 400, error |-> "deviceId and command are required"]
  ELSE IF NotConnected(body.deviceId)
  THEN [status |-> 404,
        error |-> <<"device ", body.deviceId, " not connected">>]
  ELSE IF throws
  THEN [status |-> 500, error |-> "send failed"]
  ELSE [status |-> 200, ok |-> TRUE,
        sent |-> [deviceId |-> body.deviceId, command |-> body.command]]

\* a handler whose failed send would have put the frame on the wire
PushCommandSocketsDespiteThrow(body, throws) ==
  IF PushCommandResponse(body, throws).status \notin {200, 500} THEN sockets
  ELSE [sockets EXCEPT ![conns[body.deviceId]].frames = Append(@, body.command)]

\* the sockets the handler leaves: ws.send(command) puts one frame on the wire
PushCommandSockets(body, throws) ==
  IF PushCommandResponse(body, throws).status # 200 THEN sockets
  ELSE [sockets EXCEPT ![conns[body.deviceId]].frames = Append(@, body.command)]

PushCommand(body, throws) ==
  /\ IsPush
  /\ PushCommandResponse(body, throws).status = 200 =>
       Len(sockets[conns[body.deviceId]].frames) < MaxFrames
  /\ sockets' = PushCommandSockets(body, throws)
  /\ UNCHANGED <<variant, ADMIN_TOKEN, queues, devices, now, conns>>
  /\ UNCHANGED <<statsVars, agentVars>>

\* GET /api/devices of a push hub: { online: Array.from(devices.keys()) }
PushDevicesResponse == [status |-> 200, online |-> DOMAIN conns]

PushGetDevices ==
  /\ IsPush
  /\ UNCHANGED vars

Hex1 == <<"a", "1", "b", "2", "c", "3">>
Hex2 == <<"0", "0", "0", "0", "0", "f">>
RandomHex == {Hex1, Hex2}

UpgradeRequest(path, d, x) ==
  [pathname |-> path, deviceId |-> d, xff |-> x, remoteAddress |-> <<"9">>]

\* upgrade requests that carry no usable deviceId
AnonymousUpgrades ==
  {UpgradeRequest(WsPath, d, x) : d \in {undefined, <<" ">>},
                                  x \in {undefined, <<"1">>}}

UpgradeRequests ==
  {UpgradeRequest(WsPath, undefined, undefined),
   UpgradeRequest(WsPath, <<" ">>, undefined)}
    \cup {UpgradeRequest(WsPath, A, undefined),
          UpgradeRequest(WsPath, B, undefined),
          UpgradeRequest(<<"/", "x">>, A, undefined)}

PushBodies ==
  {[deviceId |-> d, command |-> C1] : d \in {A, B, <<"9">> \o <<"-">> \o Hex1}}
    \cup {[deviceId |-> A, command |-> C2],
          [deviceId |-> undefined, command |-> C1],
          [deviceId |-> A, command |-> undefined]}

InitPush ==
  /\ variant \in {"push", "pushStrict", "pushWs"}
  /\ ADMIN_TOKEN = <<>>
  /\ queues = EmptyMap
  /\ devices = <<>>
  /\ now = 0
  /\ conns = EmptyMap
  /\ sockets = <<>>
  /\ STATS_TOKEN = <<>> /\ everSeen = {} /\ deletedSet = {}
  /\ pc = "stopped" /\ resp = [null |-> TRUE] /\ tmp = "" /\ files = {}

NextPush ==
  \/ \E r \in UpgradeRequests, x \in RandomHex : Upgrade(r, x)
  \/ \E i \in 1..Len(sockets) : BeginClose(i)
  \/ \E i \in 1..Len(sockets) : CloseEvent(i)
  \/ \E b \in PushBodies, t \in BOOLEAN : PushCommand(b, t)
  \/ PushGetDevices

SpecPush == InitPush /\ [][NextPush]_vars

---------------------------------------------------------------------------
(* The hub that keeps statistics: src/unnamed/part_001 *)

\* a GET /stats that would only compare the two tokens
GetStatsResponseCompareOnly(query) ==
  IF OrElse(query.token, <<>>) # STATS_TOKEN
  THEN [status |-> 403, error |-> "Forbidden"]
  ELSE [status |-> 200,
        ts |-> now,
        installed |-> Cardinality(everSeen),
        active |-> Cardinality({i \in 1..Len(devices) : online(devices[i], now)}),
        offline |-> Cardinality({i \in 1..Len(devices) : ~online(devices[i], now)}),
        deleted |-> Cardinality(deletedSet)]

\* GET /stats (src/unnamed/part_001:137-158)
GetStatsResponse(query) ==
  LET token == OrElse(query.token, <<>>)
      list == devices
      active ==
        Cardinality({i \in 1..Len(list) :
                       now - list[i].lastSeen <= ONLINE_WINDOW_MS})
      offlineFromCurrent == Len(list) - active
      installed ==
        IF Cardinality(everSeen) > 0 THEN Cardinality(everSeen) ELSE Len(list)
  IN  IF Falsy(STATS_TOKEN) \/ token # STATS_TOKEN
      THEN [status |-> 403, error |-> "Forbidden"]
      ELSE [status |-> 200,
            ts |-> now,
            installed |-> installed,
            active |-> active,
            offline |-> offlineFromCurrent,
            deleted |-> Cardinality(deletedSet)]

GetStats(query) ==
  /\ variant = "stats"
  /\ UNCHANGED vars

T7 == <<"t", "7">>

\* process.env.STATS_TOKEN: unset, blank, or a token
StatsEnvTokens == {undefined, <<" ">>, <<"t", "7", " ">>}

StatsQueries == {[token |-> t] : t \in {undefined, <<>>, T7, <<"t", "7", " ">>}}

StatsHeartbeatBodies ==
  {HeartbeatBody(A, Named), HeartbeatBody(undefined, Named)}

StatsCommandBodies == {[deviceId |-> A, command |-> C1]}

InitStats ==
  /\ variant = "stats"
  /\ ADMIN_TOKEN = Secret
  /\ \E env \in StatsEnvTokens : STATS_TOKEN = trim(OrElse(env, <<>>))
  /\ everSeen = {}
  /\ deletedSet = {}
  /\ queues = EmptyMap
  /\ devices = <<>>
  /\ now = 0
  /\ conns = EmptyMap
  /\ sockets = <<>>
  /\ pc = "stopped" /\ resp = [null |-> TRUE] /\ tmp = "" /\ files = {}

NextStats ==
  \/ \E q \in PullQueries, r \in Reqs : Pull(q, r)
  \/ \E b \in StatsHeartbeatBodies, r \in Reqs : Heartbeat(b, r)
  \/ \E h \in Headers, b \in StatsCommandBodies : PostCommand(h, b)
  \/ \E h \in Headers, p \in DeleteParams : DeleteDevice(h, p)
  \/ \E h \in Headers : GetDevices(h)
  \/ \E q \in StatsQueries : GetStats(q)
  \/ \E d \in TickSteps : Tick(d)

SpecStats == InitStats /\ [][NextStats]_vars

---------------------------------------------------------------------------
(* The polling agent: src/agent.ps1 *)

\* "__PSB64__:"
PSB64Tag == <<"_", "_", "P", "S", "B", "6", "4", "_", "_", ":">>

\* what a .NET call leaves when it throws
Throws == <<"throws">>

\* the character of a code unit: the inverse of CharCode
CharOf(n) ==
  CASE n = 10 -> "\n"
    [] n = 13 -> "\r"
    [] n = 32 -> " "
    [] n = 45 -> "-"
    [] n = 68 -> "D"
    [] n = 71 -> "G"
    [] n = 97 -> "a"
    [] n = 101 -> "e"
    [] n = 116 -> "t"
    [] OTHER -> "?"

\* UTF-8 bytes of a string of characters below U+0080: one byte each
RECURSIVE Utf8Bytes(_)
Utf8Bytes(s) ==
  IF s = <<>> THEN <<>> ELSE <<CharCode(Head(s))>> \o Utf8Bytes(Tail(s))

\* [System.Text.Encoding]::UTF8.GetString on bytes below 0x80; a zero byte
\* is the character U+0000
RECURSIVE Utf8GetString(_)
Utf8GetString(bytes) ==
  IF bytes = <<>> THEN <<>>
  ELSE <<IF Head(bytes) = 0 THEN "\\0" ELSE CharOf(Head(bytes))>>
         \o Utf8GetString(Tail(bytes))

Base64Digits == {Base64Alphabet[i] : i \in 1..64}

Base64Value(c) == (CHOOSE i \in 1..64 : Base64Alphabet[i] = c) - 1

\* the bytes of well-formed base64 text
RECURSIVE Base64Bytes(_)
Base64Bytes(s) ==
  IF s = <<>> THEN <<>>
  ELSE LET v1 == Base64Value(s[1])
           v2 == Base64Value(s[2])
           v3 == IF s[3] = "=" THEN 0 ELSE Base64Value(s[3])
           v4 == IF s[4] = "=" THEN 0 ELSE Base64Value(s[4])
           b1 == v1 * 4 + (v2 \div 16)
           b2 == (v2 % 16) * 16 + (v3 \div 4)
           b3 == (v3 % 4) * 64 + v4
       IN  IF s[3] = "=" THEN <<b1>>
           ELSE IF s[4] = "=" THEN <<b1, b2>>
           ELSE <<b1, b2, b3>> \o Base64Bytes(SubSeq(s, 5, Len(s)))

\* whether "=" occurs only as the last one or two characters
PaddingAtEnd(s) ==
  \A i \in 1..Len(s) :
    s[i] = "=" => (i >= Len(s) - 1 /\ \A j \in i..Len(s) : s[j] = "=")

\* [Convert]::FromBase64String: white space is skipped; any other character
\* outside the alphabet, or a length that is no multiple of four, throws
FromBase64String(s) ==
  LET t == SelectSeq(s, LAMBDA c : c \notin {" ", "\n", "\r"})
  IN  IF \/ Len(t) % 4 # 0
         \/ \E i \in 1..Len(t) : t[i] \notin Base64Digits \cup {"="}
         \/ ~PaddingAtEnd(t)
      THEN Throws
      ELSE Base64Bytes(t)

\* the script Run-PSB64 writes to the temporary file (src/agent.ps1:41-42)
RunPSB64Script(payload) ==
  LET b64 == slice(payload, Len(PSB64Tag))
  IN  IF FromBase64String(b64) = Throws THEN Throws
      ELSE Utf8GetString(FromBase64String(b64))

\* a test that would take "__PSB64__" without the colon for the tag
RunnerTagOnly(cmd) ==
  IF startsWith(cmd, SubSeq(PSB64Tag, 1, Len(PSB64Tag) - 1))
  THEN "Run-PSB64" ELSE "Run-Plain"

\* which runner the loop hands a pulled command to (src/agent.ps1:74)
Runner(cmd) == IF startsWith(cmd, PSB64Tag) THEN "Run-PSB64" ELSE "Run-Plain"

\* $DeviceId and what the agent's requests carry
DeviceId == A
AgentQuery == [deviceId |-> DeviceId]
AgentHeartbeatBody ==
  [deviceId |-> DeviceId, hostname |-> <<"h">>, username |-> <<"u">>,
   os |-> <<"w">>]
AgentReq == [xff |-> undefined, remoteAddress |-> <<"9">>]

\* Heartbeat (src/agent.ps1:56-66); reached: the POST got to the hub.
\* Whatever goes wrong is caught, and the loop goes on to the pull.
AgentHeartbeat(reached) ==
  /\ pc = "heartbeat"
  /\ devices' = IF reached THEN HeartbeatDevices(AgentHeartbeatBody, AgentReq)
                ELSE devices
  /\ pc' = "pull"
  /\ UNCHANGED <<variant, ADMIN_TOKEN, queues, now, resp, tmp, files>>
  /\ UNCHANGED <<pushVars, statsVars>>

\* how a GET of HttpGetJson can end: answered, never reached the hub, or
\* handled by the hub with the answer lost (the 30 s timeout, a broken link)
PullOutcomes == {"answered", "unreached", "lost"}

\* $null, as an object that has no property
PsNull == [null |-> TRUE]

\* what HttpGetJson returns (src/agent.ps1:23-25): the parsed body of a 2xx
\* answer; any other answer, and no answer, throws inside and gives $null
HttpGetJson(outcome) ==
  IF outcome = "answered" /\ PullResponse(AgentQuery).status = 200
  THEN [command |-> PullResponse(AgentQuery).command]
  ELSE PsNull

\* $null -ne $resp -and $resp.command (src/agent.ps1:71)
HasCommand(r) == r # PsNull /\ "command" \in DOMAIN r /\ ~Falsy(r.command)

\* a loop that would go to sleep without running what it pulled
AfterPullSkips(outcome) == "sleep"

\* where the loop stands after the pull
AfterPull(outcome) ==
  IF HasCommand(HttpGetJson(outcome)) THEN "dispatch" ELSE "sleep"

AgentPull(outcome) ==
  /\ pc = "pull"
  /\ resp' = HttpGetJson(outcome)
  /\ devices' = IF outcome = "unreached" THEN devices
                ELSE PullDevices(AgentQuery, AgentReq)
  /\ queues' = IF outcome = "unreached" THEN queues ELSE PullQueues(AgentQuery)
  /\ pc' = AfterPull(outcome)
  /\ UNCHANGED <<variant, ADMIN_TOKEN, now, tmp, files>>
  /\ UNCHANGED <<pushVars, statsVars>>

\* how Run-External can end (src/agent.ps1:27-38): the process exits with
\* code 0 or another code, Process.Start throws, or WaitForExit throws
RunOutcomes == {"exit0", "exit1", "startThrows", "waitThrows"}

\* [Guid]::NewGuid().ToString("N")
Guids == {"g1", "g2"}

\* a loop without the catch of line 76 would end when a runner throws
AfterRunUncaught(outcome) ==
  IF outcome \in {"startThrows", "waitThrows"} THEN "exited" ELSE "sleep"

\* a loop that would start over without the sleep
AfterRunNoSleep(outcome) == "heartbeat"

\* where the loop stands after a runner returned or threw: try { } catch { }
\* (src/agent.ps1:73-76)
AfterRun(outcome) == "sleep"

\* the arguments Run-Plain starts %ComSpec% with: "/c $command"
\* (src/agent.ps1:53)
RunPlainArguments(command) == <<"/", "c", " ">> \o command

\* $p.WaitForExit() has not returned (src/agent.ps1:36): the command is
\* still running while d ms pass, and the loop stands where it is
AgentCommandRuns(d) ==
  /\ pc \in {"dispatch", "written"}
  /\ now + d <= MaxNow
  /\ now' = now + d
  /\ UNCHANGED <<variant, ADMIN_TOKEN, queues, devices, pc, resp, tmp, files>>
  /\ UNCHANGED <<pushVars, statsVars>>

\* Run-Plain (src/agent.ps1:52-54): cmd /c $command
AgentRunPlain(outcome) ==
  /\ pc = "dispatch"
  /\ Runner(resp.command) = "Run-Plain"
  /\ pc' = AfterRun(outcome)
  /\ UNCHANGED <<variant, ADMIN_TOKEN, queues, devices, now, resp, tmp, files>>
  /\ UNCHANGED <<pushVars, statsVars>>

\* Run-PSB64 up to the try (src/agent.ps1:41-47): decode, then write the
\* script to a new file; FromBase64String may throw before a file exists
AgentWriteScript(guid) ==
  /\ pc = "dispatch"
  /\ Runner(resp.command) = "Run-PSB64"
  /\ guid \notin files
  /\ IF RunPSB64Script(resp.command) = Throws
     THEN /\ pc' = AfterRun("startThrows")
          /\ UNCHANGED <<tmp, files>>
     ELSE /\ pc' = "written"
          /\ tmp' = guid
          /\ files' = files \cup {guid}
  /\ UNCHANGED <<variant, ADMIN_TOKEN, queues, devices, now, resp>>
  /\ UNCHANGED <<pushVars, statsVars>>

\* a Run-PSB64 that would remove the file after Run-External returned, with
\* no finally
RunPSB64FilesOnReturn(outcome) ==
  IF outcome \in {"startThrows", "waitThrows"} THEN files ELSE files \ {tmp}

\* the files Run-PSB64 leaves: try { Run-External ... } finally { Remove-Item }
\* (src/agent.ps1:48-49)
RunPSB64Files(outcome) == files \ {tmp}

AgentRunScript(outcome) ==
  /\ pc = "written"
  /\ files' = RunPSB64Files(outcome)
  /\ pc' = AfterRun(outcome)
  /\ UNCHANGED <<variant, ADMIN_TOKEN, queues, devices, now, resp, tmp>>
  /\ UNCHANGED <<pushVars, statsVars>>

\* Start-Sleep -Seconds $PollSec (src/agent.ps1:78), then the loop starts over
AgentSleep ==
  /\ pc = "sleep"
  /\ now + PollSec * 1000 <= MaxNow
  /\ now' = now + PollSec * 1000
  /\ pc' = "heartbeat"
  /\ UNCHANGED <<variant, ADMIN_TOKEN, queues, devices, resp, tmp, files>>
  /\ UNCHANGED <<pushVars, statsVars>>

\* the sleep once the clock of the model stands at its bound: the loop goes
\* on and the clock stands still
AgentSleepLate ==
  /\ pc = "sleep"
  /\ now + PollSec * 1000 > MaxNow
  /\ pc' = "heartbeat"
  /\ UNCHANGED <<variant, ADMIN_TOKEN, queues, devices, now, resp, tmp, files>>
  /\ UNCHANGED <<pushVars, statsVars>>

\* a tagged payload as Run-PSB64 expects it, and one whose base64 is broken
Tagged(script) == PSB64Tag \o Base64(Utf8Bytes(script))
BadTagged == PSB64Tag \o <<"-", "-", "-", "-">>

AgentCommandBodies ==
  {[deviceId |-> DeviceId, command |-> c] : c \in {C1, Tagged(GetDate), BadTagged}}

InitAgent ==
  /\ variant = "gated"
  /\ ADMIN_TOKEN = Secret
  /\ queues = EmptyMap
  /\ devices = <<>>
  /\ now = 0
  /\ conns = EmptyMap
  /\ sockets = <<>>
  /\ STATS_TOKEN = <<>> /\ everSeen = {} /\ deletedSet = {}
  /\ pc = "heartbeat" /\ resp = PsNull /\ tmp = "" /\ files = {}

NextAgent ==
  \/ \E reached \in BOOLEAN : AgentHeartbeat(reached)
  \/ \E o \in PullOutcomes : AgentPull(o)
  \/ \E o \in RunOutcomes : AgentRunPlain(o)
  \/ \E g \in Guids : AgentWriteScript(g)
  \/ \E o \in RunOutcomes : AgentRunScript(o)
  \/ AgentSleep
  \/ \E d \in TickSteps : AgentCommandRuns(d)
  \/ \E b \in AgentCommandBodies :
       PostCommand([xAdminToken |-> Secret, authorization |-> undefined], b)

SpecAgent == InitAgent /\ [][NextAgent]_vars

(* The agent whose loop keeps running and whose requests get through: every *)
(* command exits, every answer of the hub arrives, and of the pulls that    *)
(* are tried again and again some reach the hub                             *)

DeliveredPullOutcomes == {"answered", "unreached"}

NextAgentFair ==
  \/ \E reached \in BOOLEAN : AgentHeartbeat(reached)
  \/ \E o \in DeliveredPullOutcomes : AgentPull(o)
  \/ \E o \in RunOutcomes : AgentRunPlain(o)
  \/ \E g \in Guids : AgentWriteScript(g)
  \/ \E o \in RunOutcomes : AgentRunScript(o)
  \/ AgentSleep
  \/ AgentSleepLate
  \/ \E b \in AgentCommandBodies :
       PostCommand([xAdminToken |-> Secret, authorization |-> undefined], b)

\* where the loop can stand
LoopPositions == {"heartbeat", "pull", "dispatch", "written", "sleep"}

\* the loop moves on to another position; only the steps of the agent change
\* pc, and at every position one of them can be taken
LoopMoves == pc' \in LoopPositions /\ pc' # pc

\* The loop is never stuck for ever at one position, and when it pulls
\* again and again, then again and again a pull is answered. A pull can be
\* taken exactly when pc = "pull", so the second condition is strong
\* fairness of the answered pull.
SpecAgentFair ==
  /\ InitAgent
  /\ [][NextAgentFair]_vars
  /\ WF_pc(LoopMoves)
  /\ ([]<>(pc = "pull") => []<><<AgentPull("answered")>>_vars)

---------------------------------------------------------------------------
(* Claims about the poll hubs *)

IsPrefix(a, b) == Len(a) <= Len(b) /\ SubSeq(b, 1, Len(a)) = a

Pending(q, id) == IF id \in DOMAIN q THEN q[id] ELSE <<>>

\* the queue map after enqueue(id, c) for each c of cs, in order
RECURSIVE EnqueueAll(_, _, _)
EnqueueAll(q, id, cs) ==
  IF cs = <<>> THEN q ELSE EnqueueAll(enqueue(q, id, Head(cs)), id, Tail(cs))

\* the commands that n successive pulls of id answer with, from queue map q
RECURSIVE Pulls(_, _, _)
Pulls(q, id, n) ==
  IF n = 0 THEN <<>>
  ELSE <<Coalesce(dequeued(q, id), null)>> \o Pulls(dequeue(q, id), id, n - 1)

CommandSeqs ==
  {<<>>} \cup {<<c>> : c \in Commands}
         \cup {<<c, d>> : c \in Commands, d \in Commands}
         \cup {<<C1, C2, C1>>}

\* C1: from every reachable registry, for every device id and every
\* sequence c1..cn enqueued for it, the pulls for that id return what was
\* already pending for it, then c1..cn in the order enqueued, each
\* unchanged, and the pull after the last one returns null.
C1_Fifo ==
  \A id \in {A, B} :
    /\ PullResponse([deviceId |-> id]).command
         = Head(Pending(queues, id) \o <<null>>)
    /\ \A cs \in CommandSeqs :
         Pulls(EnqueueAll(queues, id, cs), id,
               Len(Pending(queues, id)) + Len(cs) + 1)
           = Pending(queues, id) \o cs \o <<null>>

\* two different commands are pending for A, and the pull returns the older
C1_Witness ==
  /\ Pending(queues, A) = <<C2, C1>>
  /\ PullResponse([deviceId |-> A]).command = C2
  /\ Pulls(queues, A, 3) = <<C2, C1, null>>

\* C2: a pending command leaves its queue only by being returned by a pull
\* for that id (the oldest first) or by a DELETE of that id: no passage of
\* time, no contact or absence of contact and no other request removes or
\* reorders it, whether the device is stale or was never seen.
C2_Durable ==
  [][\A k \in DOMAIN queues :
       \/ k \in DOMAIN queues' /\ IsPrefix(queues[k], queues'[k])
       \/ /\ queues[k] # <<>>
          /\ k \in DOMAIN queues' /\ queues'[k] = Tail(queues[k])
          /\ \E q \in PullQueries, r \in Reqs :
               /\ PullId(q) = k
               /\ Pull(q, r)
               /\ PullResponse(q).command = Head(queues[k])
       \/ \E h \in Headers, p \in DeleteParams :
            /\ DeleteId(p) = k
            /\ DeleteDeviceResponse(h, p).status = 200
            /\ DeleteDevice(h, p)]_vars

\* in the simple hub (no delete) A never contacted the hub, more than the
\* presence window has passed, and its two commands are still pending in order
C2_Witness ==
  /\ variant = "simple"
  /\ ~HasDevice(devices, A)
  /\ now > ONLINE_WINDOW_MS
  /\ Pending(queues, A) = <<C1, C2>>
  /\ PullResponse([deviceId |-> A]).command = C1

ProtectedStatuses(h) ==
  {PostCommandResponse(h, b).status : b \in CommandBodies}
    \cup {PostPsResponse(h, b).status : b \in PsBodies}
    \cup {DeleteDeviceResponse(h, p).status : p \in DeleteParams}
    \cup {GetDevicesResponse(h).status, GetQueuesResponse(h).status}

\* C3: in the token-gated hub with no ADMIN_TOKEN configured, every request
\* to a protected route is answered 401 whatever token it presents, and
\* leaves the device records and the queues as they were.
C3_NoTokenFailsClosed ==
  (variant = "gated" /\ ADMIN_TOKEN = <<>>) =>
    \A h \in AllHeaders :
      /\ ProtectedStatuses(h) = {401}
      /\ \A b \in CommandBodies : PostCommandQueues(h, b) = queues
      /\ \A b \in PsBodies : PostPsQueues(h, b) = queues
      /\ \A p \in DeleteParams :
           DeleteQueues(h, p) = queues /\ DeleteDevices(h, p) = devices

\* no token is configured, a device is registered, and a command posted
\* with an empty token is refused
C3_Witness ==
  /\ variant = "gated"
  /\ ADMIN_TOKEN = <<>>
  /\ HasDevice(devices, A)
  /\ PostCommandResponse([xAdminToken |-> <<>>, authorization |-> undefined],
                         [deviceId |-> A, command |-> C1]).status = 401

\* C4: in every poll hub a request to POST /api/command, GET /api/devices
\* or GET /api/queues that does not carry the operator token is answered 401.
C4_OperatorAuthenticated ==
  \A h \in AllHeaders :
    ~requireAdmin(h) =>
      /\ \A b \in CommandBodies : PostCommandResponse(h, b).status = 401
      /\ GetDevicesResponse(h).status = 401
      /\ GetQueuesResponse(h).status = 401


Operator == [xAdminToken |-> undefined, authorization |-> Bearer \o Secret]

\* C5: GET /api/devices lists every stored record, with online = TRUE
\* exactly when now - lastSeen <= 30000 ms; a record is online 30000 ms after
\* its last contact and offline 30001 ms after it; no stored record carries
\* the flag.
C5_OnlineWindow ==
  /\ \A h \in AllHeaders :
       GetDevicesResponse(h).status = 200 =>
         LET list == GetDevicesResponse(h).devices
         IN  /\ Len(list) = Len(devices)
             /\ \A i \in 1..Len(list) :
                  /\ HasDevice(devices, list[i].id)
                  /\ GetDevice(devices, list[i].id).lastSeen = list[i].lastSeen
                  /\ list[i].online <=> (now - list[i].lastSeen <= 30000)
  /\ \A i \in 1..Len(devices) :
       /\ "online" \notin DOMAIN devices[i]
       /\ Listed(devices[i], devices[i].lastSeen + 30000).online
       /\ ~Listed(devices[i], devices[i].lastSeen + 30001).online

\* a device last seen exactly 30000 ms ago is listed, and listed online
C5_Witness ==
  /\ GetDevicesResponse(Operator).status = 200
  /\ \E i \in 1..Len(GetDevicesResponse(Operator).devices) :
       /\ now - GetDevicesResponse(Operator).devices[i].lastSeen = 30000
       /\ GetDevicesResponse(Operator).devices[i].online

\* C6: a heartbeat keeps every field of an existing record that it does not
\* supply, a pull keeps all three, and both set lastSeen to the current time.
C6_KeepsUnsetFields ==
  /\ \A b \in MetaHeartbeatBodies, r \in MetaReqs :
       (HeartbeatResponse(b).status = 200 /\ HasDevice(devices, HeartbeatId(b))) =>
         LET old == GetDevice(devices, HeartbeatId(b))
             new == GetDevice(HeartbeatDevices(b, r), HeartbeatId(b))
         IN  /\ b.hostname = undefined => new.hostname = old.hostname
             /\ b.username = undefined => new.username = old.username
             /\ b.os = undefined => new.os = old.os
             /\ new.lastSeen = now
  /\ \A q \in MetaPullQueries, r \in MetaReqs :
       (PullResponse(q).status = 200 /\ HasDevice(devices, PullId(q))) =>
         LET old == GetDevice(devices, PullId(q))
             new == GetDevice(PullDevices(q, r), PullId(q))
         IN  /\ new.hostname = old.hostname
             /\ new.username = old.username
             /\ new.os = old.os
             /\ new.lastSeen = now

\* A was recorded with hostname "h" some time ago; a heartbeat that names
\* only a username leaves hostname "h" and refreshes lastSeen
C6_Witness ==
  /\ HasDevice(devices, A)
  /\ GetDevice(devices, A).hostname = <<"h">>
  /\ GetDevice(devices, A).lastSeen < now
  /\ LET after == GetDevice(HeartbeatDevices(
                    [deviceId |-> A, hostname |-> undefined,
                     username |-> <<"v">>, os |-> undefined], Proxied), A)
     IN  /\ after.hostname = <<"h">>
         /\ after.username = <<"v">>
         /\ after.lastSeen = now

\* C7: every accepted pull, whether it returns a command or null, leaves a
\* record for the device with lastSeen = now, so the device is listed online
\* from then until the presence window has passed.
C7_PullIsPresence ==
  \A q \in PullQueries, r \in Reqs :
    PullResponse(q).status = 200 =>
      LET after == PullDevices(q, r)
      IN  /\ HasDevice(after, PullId(q))
          /\ GetDevice(after, PullId(q)).lastSeen = now
          /\ \A t \in {now, now + ONLINE_WINDOW_MS} :
               LET list == DeviceList(after, t)
               IN  \E i \in 1..Len(list) :
                     list[i].id = PullId(q) /\ list[i].online

\* A is stale and nothing is pending for it: its pull returns null and
\* makes it online again
C7_Witness ==
  /\ HasDevice(devices, A)
  /\ ~online(GetDevice(devices, A), now)
  /\ PullResponse([deviceId |-> A]) = [status |-> 200, command |-> null]
  /\ online(GetDevice(PullDevices([deviceId |-> A], Proxied), A), now)

\* C8: after an accepted DELETE of an id, a pull for that id returns null,
\* even if commands were pending, and neither the device list nor the queue
\* view holds the id.
C8_RemoveThenEmpty ==
  \A h \in AllHeaders, p \in DeleteParams :
    DeleteDeviceResponse(h, p).status = 200 =>
      /\ Pulls(DeleteQueues(h, p), DeleteId(p), 1) = <<null>>
      /\ \A i \in 1..Len(DeleteDevices(h, p)) :
           DeviceList(DeleteDevices(h, p), now)[i].id # DeleteId(p)
      /\ DeleteId(p) \notin DOMAIN QueueView(DeleteQueues(h, p))

\* A has a record and pending commands, and the operator's DELETE is accepted
C8_Witness ==
  /\ HasDevice(devices, A)
  /\ Pending(queues, A) # <<>>
  /\ DeleteDeviceResponse(Operator, A).status = 200

---------------------------------------------------------------------------
(* Claims about the push hubs *)

\* C9: in every push hub an upgrade request without a usable deviceId is
\* accepted, and the identifier it is registered under is non-empty and was
\* assigned to no earlier connection.
C9_FallbackUnique ==
  IsPush =>
    \A r \in AnonymousUpgrades, x \in RandomHex :
      /\ UpgradeAccepted(r)
      /\ UpgradeId(r, x) # <<>>
      /\ UpgradeId(r, x) \notin AssignedIds

\* C10: handling a connection's close event leaves its identifier out of
\* the connection map; a command for an identifier that is absent from the
\* map, or whose socket is not OPEN, is answered 404 "not connected" and puts
\* no frame on any socket; the hub keeps no queue, and a connection accepted
\* later starts with no frame sent to it.
C10_ClosedNotConnected ==
  IsPush =>
    /\ \A i \in 1..Len(sockets) :
         sockets[i].readyState # "CLOSED" =>
           sockets[i].id \notin DOMAIN CloseConns(i)
    /\ \A b \in PushBodies, t \in BOOLEAN :
         ( /\ ~Falsy(b.deviceId) /\ ~Falsy(b.command)
           /\ \/ b.deviceId \notin DOMAIN conns
              \/ sockets[conns[b.deviceId]].readyState # "OPEN" ) =>
           /\ PushCommandResponse(b, t).status = 404
           /\ PushCommandResponse(b, t).error[3] = " not connected"
           /\ PushCommandSockets(b, t) = sockets
    /\ queues = EmptyMap
    /\ \A r \in UpgradeRequests, x \in RandomHex :
         UpgradeAccepted(r) =>
           UpgradeSockets(r, x)[Len(sockets) + 1].frames = <<>>

\* A connected, received a command, and its close event has been handled;
\* a second device's socket is closing but still in the map; commands for
\* either are answered 404
C10_Witness ==
  /\ \E i \in 1..Len(sockets) :
       /\ sockets[i].id = A
       /\ sockets[i].readyState = "CLOSED"
       /\ sockets[i].frames = <<C1>>
  /\ A \notin DOMAIN conns
  /\ B \in DOMAIN conns
  /\ sockets[conns[B]].readyState = "CLOSING"
  /\ PushCommandResponse([deviceId |-> A, command |-> C2], FALSE).status = 404
  /\ PushCommandResponse([deviceId |-> B, command |-> C2], FALSE).status = 404

\* the sockets accepted under id
SocketsOf(id) == {i \in 1..Len(sockets) : sockets[i].id = id}

\* C11: accepting a connection under an id sets the id's entry to the new
\* socket and leaves every other entry alone; whenever an id has an entry,
\* it is the most recently accepted socket of that id, and an accepted
\* command puts its frame on that socket and on no other.
C11_ReplacedOnReconnect ==
  IsPush =>
    /\ \A r \in UpgradeRequests, x \in RandomHex :
         UpgradeAccepted(r) =>
           /\ UpgradeConns(r, x)[UpgradeId(r, x)] = Len(sockets) + 1
           /\ UpgradeSockets(r, x)[Len(sockets) + 1].id = UpgradeId(r, x)
           /\ \A k \in DOMAIN conns \ {UpgradeId(r, x)} :
                UpgradeConns(r, x)[k] = conns[k]
    /\ \A id \in DOMAIN conns :
         /\ conns[id] \in SocketsOf(id)
         /\ \A j \in SocketsOf(id) : j <= conns[id]
    /\ \A b \in PushBodies, t \in BOOLEAN :
         PushCommandResponse(b, t).status = 200 =>
           \A j \in 1..Len(sockets) :
             PushCommandSockets(b, t)[j].frames =
               IF j = conns[b.deviceId]
               THEN Append(sockets[j].frames, b.command)
               ELSE sockets[j].frames

\* A connected twice, both sockets are still open, and the command sent to A
\* after the second connection went to the second socket only
C11_Witness ==
  /\ Len(sockets) = 2
  /\ sockets[1].id = A /\ sockets[1].readyState = "OPEN"
  /\ sockets[2].id = A /\ sockets[2].readyState = "OPEN"
  /\ conns[A] = 2
  /\ sockets[1].frames = <<>>
  /\ sockets[2].frames = <<C1>>

---------------------------------------------------------------------------
(* Claims about the poll hubs: validation *)

\* C12: a pull or a heartbeat without a deviceId is answered 400, leaves
\* the device records as they are and dequeues nothing; a command post
\* without deviceId or without command, and a script post without deviceId
\* or without script, is answered 400 to an authorised operator and
\* enqueues nothing.
C12_MissingFieldRejected ==
  IsPoll =>
    /\ \A d \in {undefined, <<>>}, r \in MetaReqs :
         /\ PullResponse([deviceId |-> d]).status = 400
         /\ PullDevices([deviceId |-> d], r) = devices
         /\ PullQueues([deviceId |-> d]) = queues
         /\ \A p \in Partials :
              /\ HeartbeatResponse(HeartbeatBody(d, p)).status = 400
              /\ HeartbeatDevices(HeartbeatBody(d, p), r) = devices
    /\ \A h \in AllHeaders, d \in {undefined, <<>>, A}, c \in {undefined, <<>>, C1} :
         (Admitted(h) /\ (d # A \/ c # C1)) =>
           /\ PostCommandResponse(h, [deviceId |-> d, command |-> c]).status = 400
           /\ PostCommandQueues(h, [deviceId |-> d, command |-> c]) = queues
           /\ variant = "gated" =>
                /\ PostPsResponse(h, [deviceId |-> d, script |-> c]).status = 400
                /\ PostPsQueues(h, [deviceId |-> d, script |-> c]) = queues

\* the token-gated hub holds a record and a pending command for A, and the
\* operator's command post without a command is answered 400
C12_Witness ==
  /\ variant = "gated"
  /\ HasDevice(devices, A)
  /\ Pending(queues, A) # <<>>
  /\ PullResponse([deviceId |-> undefined]).status = 400
  /\ PostCommandResponse(Operator, [deviceId |-> A, command |-> undefined]).status = 400

---------------------------------------------------------------------------
(* Claims about scripts *)

Scripts == {GetDate, <<"a">>, <<"D", "a", "t", "e">>}

\* C13: for every script posted to POST /api/ps, the queued entry is the
\* tag "__PSB64__:" followed by base64 of the script's UTF-8 bytes, the
\* agent hands it to Run-PSB64, and what Run-PSB64 decodes is the script.
C13_TaggedUtf8RoundTrip ==
  \A s \in Scripts :
    /\ PostPsResponse(Operator, [deviceId |-> B, script |-> s]).status = 200 =>
         Pending(PostPsQueues(Operator, [deviceId |-> B, script |-> s]), B)
           = Pending(queues, B) \o <<PSB64Tag \o Base64(Utf8Bytes(s))>>
    /\ PsQueued(s) = PSB64Tag \o Base64(Utf8Bytes(s))
    /\ Runner(PsQueued(s)) = "Run-PSB64"
    /\ RunPSB64Script(PsQueued(s)) = s

---------------------------------------------------------------------------
(* Claims about the polling agent *)

\* C14: while Run-PSB64 is between writing its temporary file and running
\* it, the file exists, and however Run-External ends (exit code 0, another
\* exit code, an exception from Process.Start or from WaitForExit) the file
\* is gone when Run-PSB64 is left; outside Run-PSB64 no temporary file exists.
C14_TempFileRemoved ==
  (pc # "stopped") =>
    /\ pc = "written" =>
         /\ tmp \in files
         /\ \A o \in RunOutcomes : tmp \notin RunPSB64Files(o)
    /\ pc # "written" => files = {}

\* the agent pulled a tagged payload, wrote and ran its script, and is back
\* in the loop with the file removed
C14_Witness ==
  /\ pc = "sleep"
  /\ HasCommand(resp)
  /\ resp.command = Tagged(GetDate)
  /\ RunPSB64Script(resp.command) = GetDate
  /\ tmp \in Guids
  /\ tmp \notin files

\* C15: the loop is never left; the heartbeat, reached or not, is followed
\* by the pull; a pull that fails, times out or returns no command is
\* followed by the sleep; a runner that returns or throws is followed by
\* the sleep; and the sleep is followed by the next heartbeat.
C15_LoopsForever ==
  [][(pc # "stopped") =>
       /\ pc' # "exited"
       /\ (pc = "heartbeat" /\ pc' # pc) => pc' = "pull"
       /\ (pc = "pull" /\ pc' # pc) =>
            pc' = IF "command" \in DOMAIN resp' /\ resp'.command # null
                  THEN "dispatch" ELSE "sleep"
       /\ (pc = "dispatch" /\ pc' # pc) => pc' \in {"written", "sleep"}
       /\ (pc = "written" /\ pc' # pc) => pc' = "sleep"
       /\ (pc = "sleep" /\ pc' # pc) => pc' = "heartbeat"]_vars

\* the agent is in a later round of its loop although no request of its
\* ever reached the hub
C15_Witness ==
  /\ pc = "pull"
  /\ now >= PollSec * 1000
  /\ ~HasDevice(devices, DeviceId)
  /\ resp = PsNull

---------------------------------------------------------------------------
(* Claims about the operator's views of the poll hubs *)

\* C16: the list GET /api/devices answers with holds every stored record
\* exactly once, each with the fields that are stored, and no entry has a
\* smaller lastSeen than an entry after it.
C16_ListedNewestFirst ==
  \A h \in AllHeaders :
    GetDevicesResponse(h).status = 200 =>
      LET list == GetDevicesResponse(h).devices
      IN  /\ Len(list) = Len(devices)
          /\ {list[i].id : i \in 1..Len(list)} = DeviceIds(devices)
          /\ \A i, j \in 1..Len(list) : list[i].id = list[j].id => i = j
          /\ \A i \in 1..Len(list) :
               LET info == GetDevice(devices, list[i].id)
               IN  /\ list[i].ip = info.ip
                   /\ list[i].hostname = info.hostname
                   /\ list[i].username = info.username
                   /\ list[i].os = info.os
                   /\ list[i].lastSeen = info.lastSeen
          /\ \A i, j \in 1..Len(list) :
               i < j => list[i].lastSeen >= list[j].lastSeen

\* A was stored first and B contacted the hub later, and B is listed first
C16_Witness ==
  /\ Len(devices) = 2
  /\ devices[1].id = A /\ devices[2].id = B
  /\ devices[1].lastSeen < devices[2].lastSeen
  /\ GetDevicesResponse(Operator).status = 200
  /\ GetDevicesResponse(Operator).devices[1].id = B
  /\ GetDevicesResponse(Operator).devices[2].id = A

\* the count a queue view reports for id, 0 when it does not report the id
Count(view, id) == IF id \in DOMAIN view THEN view[id] ELSE 0

\* C17: GET /api/queues reports, for exactly the ids that have a queue, the
\* number of pending commands; an accepted command post raises the count of
\* its id by one (reporting the id from then on), a pull lowers the count of
\* its id by one exactly when it returns a command and keeps the id reported
\* when the queue runs empty, neither changes another id's count, and after
\* a DELETE the id is not reported.
C17_QueueCounts ==
  /\ \A h \in AllHeaders :
       GetQueuesResponse(h).status = 200 =>
         /\ DOMAIN GetQueuesResponse(h).view = DOMAIN queues
         /\ \A k \in DOMAIN queues :
              GetQueuesResponse(h).view[k] = Len(queues[k])
  /\ \A h \in Headers, b \in CommandBodies :
       PostCommandResponse(h, b).status = 200 =>
         LET after == QueueView(PostCommandQueues(h, b))
         IN  /\ b.deviceId \in DOMAIN after
             /\ after[b.deviceId] = Count(QueueView(queues), b.deviceId) + 1
             /\ \A k \in DOMAIN queues \ {b.deviceId} :
                  after[k] = QueueView(queues)[k]
  /\ \A q \in PullQueries :
       PullResponse(q).status = 200 =>
         LET after == QueueView(PullQueues(q))
         IN  /\ DOMAIN after = DOMAIN queues
             /\ Count(after, PullId(q)) =
                  Count(QueueView(queues), PullId(q))
                    - (IF PullResponse(q).command = null THEN 0 ELSE 1)
             /\ \A k \in DOMAIN queues \ {PullId(q)} :
                  after[k] = QueueView(queues)[k]
  /\ \A h \in Headers, p \in DeleteParams :
       DeleteDeviceResponse(h, p).status = 200 =>
         /\ DeleteId(p) \notin DOMAIN QueueView(DeleteQueues(h, p))
         /\ \A k \in DOMAIN queues \ {DeleteId(p)} :
              QueueView(DeleteQueues(h, p))[k] = QueueView(queues)[k]

\* A's queue was filled and drained and is reported with count 0, and B,
\* which has one pending command, is reported with count 1
C17_Witness ==
  /\ A \in DOMAIN queues /\ queues[A] = <<>>
  /\ GetQueuesResponse(Operator).status = 200
  /\ GetQueuesResponse(Operator).view[A] = 0
  /\ Count(GetQueuesResponse(Operator).view, B) = 1

---------------------------------------------------------------------------
(* Claims about the life of a device record *)

\* the device maps an accepted contact of id without metadata may leave
Contacts(id) ==
  {PullDevices(q, r) : q \in {x \in PullQueries : PullId(x) = id},
                       r \in Reqs}
    \cup {HeartbeatDevices(b, r) :
            b \in {x \in HeartbeatBodies :
                     /\ HeartbeatResponse(x).status = 200
                     /\ HeartbeatId(x) = id
                     /\ HeartbeatPartial(x) = NoPartial},
            r \in Reqs}

\* what every stored record satisfies: it is online at the time it was last
\* seen and offline, though still listed, once the window has passed; and
\* a pull or a heartbeat without metadata leaves it online with the
\* hostname, username and os it had
PresenceOfRecords ==
  \A i \in 1..Len(devices) :
    LET info == devices[i]
        late == info.lastSeen + ONLINE_WINDOW_MS + 1
    IN  /\ online(info, info.lastSeen)
        /\ \E k \in 1..Len(devices) :
             /\ DeviceList(devices, late)[k].id = info.id
             /\ ~DeviceList(devices, late)[k].online
        /\ \A d \in Contacts(info.id) :
             /\ DeviceIds(devices) \subseteq DeviceIds(d)
             /\ online(GetDevice(d, info.id), now)
             /\ GetDevice(d, info.id).hostname = info.hostname
             /\ GetDevice(d, info.id).username = info.username
             /\ GetDevice(d, info.id).os = info.os

\* what every step satisfies: time that passes changes no record; a record
\* disappears only by an accepted DELETE of its id; a record appears only
\* by an accepted pull or heartbeat of its id, and is then online
PresenceStep ==
  /\ now' # now => devices' = devices
  /\ \A id \in DeviceIds(devices) \ DeviceIds(devices') :
       \E h \in Headers, p \in DeleteParams :
         /\ DeleteDeviceResponse(h, p).status = 200
         /\ DeleteId(p) = id
         /\ devices' = DeleteDevices(h, p)
  /\ \A id \in DeviceIds(devices') \ DeviceIds(devices) :
       /\ online(GetDevice(devices', id), now')
       /\ \E r \in Reqs :
            \/ \E q \in PullQueries :
                 /\ PullResponse(q).status = 200 /\ PullId(q) = id
                 /\ devices' = PullDevices(q, r)
            \/ \E b \in HeartbeatBodies :
                 /\ HeartbeatResponse(b).status = 200 /\ HeartbeatId(b) = id
                 /\ devices' = HeartbeatDevices(b, r)

\* C18: a device has no record until its first accepted pull or heartbeat,
\* which stores it online; it goes offline by the passage of time alone,
\* which changes no record, and a stale record stays stored and listed until
\* it is deleted; its next pull or heartbeat makes it online again with the
\* hostname, username and os it had.
C18_Presence == []PresenceOfRecords /\ [][PresenceStep]_vars

\* A reported its metadata, went stale and is listed offline, and a pull
\* for A brings it back online with that metadata
C18_Witness ==
  /\ HasDevice(devices, A)
  /\ GetDevice(devices, A).hostname = <<"h">>
  /\ ~online(GetDevice(devices, A), now)
  /\ \E k \in 1..Len(devices) :
       /\ DeviceList(devices, now)[k].id = A
       /\ ~DeviceList(devices, now)[k].online
  /\ \E r \in Reqs :
       LET d == PullDevices([deviceId |-> A], r)
       IN  online(GetDevice(d, A), now) /\ GetDevice(d, A).hostname = <<"h">>

---------------------------------------------------------------------------
(* Claims about requests that arrive together *)

\* No handler of the poll hubs awaits anything: Node runs each to its end
\* before it starts the next, so requests that arrive together are served
\* one after the other in some order.  A request for one device id, served
\* on the pair of the queue map and the commands handed out so far:
Serve(st, id, rq) ==
  CASE rq.op = "pull" ->
         [q |-> dequeue(st.q, id),
          out |-> IF dequeued(st.q, id) = null THEN st.out
                  ELSE Append(st.out, dequeued(st.q, id))]
    [] rq.op = "command" ->
         [q |-> enqueue(st.q, id, rq.command), out |-> st.out]
    [] rq.op = "delete" ->
         [q |-> MapDelete(st.q, id), out |-> st.out]

RECURSIVE ServeAll(_, _, _)
ServeAll(st, id, rqs) ==
  IF rqs = <<>> THEN st
  ELSE ServeAll(Serve(st, id, Head(rqs)), id, Tail(rqs))

\* requests for one id that arrive together, and the orders they may be
\* served in
Together ==
  <<[op |-> "pull", command |-> null],
    [op |-> "pull", command |-> null],
    [op |-> "pull", command |-> null],
    [op |-> "command", command |-> C1],
    [op |-> "delete", command |-> null]>>

Orders ==
  {[i \in 1..Len(Together) |-> Together[p[i]]] :
     p \in Permutations(1..Len(Together))}

Occurrences(s, v) == Cardinality({i \in 1..Len(s) : s[i] = v})

Posted(rqs) ==
  SelectSeq([i \in 1..Len(rqs) |-> rqs[i].command], LAMBDA c : c # null)

\* C19: served in any order, requests for one id that arrive together hand
\* out each command at most as often as it was enqueued for that id, before
\* or among them: no command goes to two pulls and none is made up.  Each
\* handler's effect on the queues is that of its registry call.
C19_AtMostOncePerPull ==
  IsPoll =>
    /\ \A id \in {A, B}, rqs \in Orders :
         LET end == ServeAll([q |-> queues, out |-> <<>>], id, rqs)
         IN  \A v \in Commands \cup {end.out[i] : i \in 1..Len(end.out)} :
               Occurrences(end.out, v)
                 <= Occurrences(Pending(queues, id) \o Posted(rqs), v)
    /\ \A q \in PullQueries :
         PullResponse(q).status = 200 =>
           LET st == Serve([q |-> queues, out |-> <<>>], PullId(q),
                           [op |-> "pull", command |-> null])
           IN  /\ PullQueues(q) = st.q
               /\ st.out = IF PullResponse(q).command = null THEN <<>>
                           ELSE <<PullResponse(q).command>>
    /\ \A h \in Headers, b \in CommandBodies :
         PostCommandResponse(h, b).status = 200 =>
           PostCommandQueues(h, b) =
             Serve([q |-> queues, out |-> <<>>], b.deviceId,
                   [op |-> "command", command |-> b.command]).q

\* C1 is pending for A when two pulls and a post of C1 for A arrive with
\* the post served last: the first pull gets C1 and the second gets nothing
C19_Witness ==
  /\ IsPoll
  /\ Pending(queues, A) = <<C1>>
  /\ \E rqs \in Orders :
       /\ rqs[1].op = "pull" /\ rqs[2].op = "pull" /\ rqs[5].op = "command"
       /\ ServeAll([q |-> queues, out |-> <<>>], A, SubSeq(rqs, 1, 2)).out
            = <<C1>>

---------------------------------------------------------------------------
(* Claims about the statistics *)

\* C20: GET /stats answers 200 when a stats token is configured and the
\* request's token equals it, and 403 otherwise; the 200 answer counts the
\* ids seen as installed, the stored records inside the online window as
\* active, those outside it as offline and the ids deleted as deleted.  The
\* ids seen are those stored or deleted, every accepted pull and heartbeat
\* adds its id to them and every accepted DELETE adds its id to the deleted.
C20_Stats ==
  /\ \A query \in StatsQueries :
       LET r == GetStatsResponse(query)
       IN  /\ r.status \in {200, 403}
           /\ r.status = 200 <=>
                /\ STATS_TOKEN # <<>>
                /\ query.token = STATS_TOKEN
           /\ r.status = 200 =>
                /\ r.installed = Cardinality(everSeen)
                /\ r.active =
                     Cardinality({id \in DeviceIds(devices) :
                                    online(GetDevice(devices, id), now)})
                /\ r.offline =
                     Cardinality({id \in DeviceIds(devices) :
                                    ~online(GetDevice(devices, id), now)})
                /\ r.deleted = Cardinality(deletedSet)
  /\ DeviceIds(devices) \subseteq everSeen
  /\ everSeen \subseteq DeviceIds(devices) \cup deletedSet
  /\ \A q \in PullQueries :
       PullEverSeen(q) =
         IF PullResponse(q).status = 200 THEN everSeen \cup {PullId(q)}
         ELSE everSeen
  /\ \A b \in StatsHeartbeatBodies :
       HeartbeatEverSeen(b) =
         IF HeartbeatResponse(b).status = 200
         THEN everSeen \cup {HeartbeatId(b)}
         ELSE everSeen
  /\ \A h \in Headers, p \in DeleteParams :
       DeleteDeletedSet(h, p) =
         IF DeleteDeviceResponse(h, p).status = 200
         THEN deletedSet \cup {DeleteId(p)}
         ELSE deletedSet

\* A and B were seen, B was deleted and A went stale: the authorised
\* answer counts 2 installed, 0 active, 1 offline and 1 deleted
C20_Witness ==
  /\ STATS_TOKEN = T7
  /\ GetStatsResponse([token |-> T7]).status = 200
  /\ GetStatsResponse([token |-> T7]).installed = 2
  /\ GetStatsResponse([token |-> T7]).active = 0
  /\ GetStatsResponse([token |-> T7]).offline = 1
  /\ GetStatsResponse([token |-> T7]).deleted = 1
  /\ GetStatsResponse([token |-> undefined]).status = 403

---------------------------------------------------------------------------
(* Claims about the connections of the push hubs *)

\* the connection accepted last for id
Newest(id) ==
  CHOOSE i \in 1..Len(sockets) :
    /\ sockets[i].id = id
    /\ \A j \in 1..Len(sockets) : sockets[j].id = id => j <= i

\* C21: whenever the connection accepted last for an id is OPEN, the
\* connection map holds the id and maps it to that connection.
C21_NewestOpenRegistered ==
  \A id \in AssignedIds :
    sockets[Newest(id)].readyState = "OPEN" =>
      /\ id \in DOMAIN conns
      /\ conns[id] = Newest(id)

\* what a POST /api/command does in any state: a send that throws answers
\* 500 and leaves every socket as it was; a send answered ok went to the
\* connection registered under the deviceId, which is OPEN, put the command
\* on it once and left every other socket as it was
SendEffect ==
  \A b \in PushBodies :
    /\ (~Falsy(b.deviceId) /\ ~Falsy(b.command) /\ ~NotConnected(b.deviceId))
         => /\ PushCommandResponse(b, TRUE).status = 500
            /\ PushCommandSockets(b, TRUE) = sockets
    /\ PushCommandResponse(b, FALSE).status = 200 =>
         LET k == conns[b.deviceId]
             after == PushCommandSockets(b, FALSE)
         IN  /\ sockets[k].id = b.deviceId
             /\ sockets[k].readyState = "OPEN"
             /\ Len(after) = Len(sockets)
             /\ after[k].frames = Append(sockets[k].frames, b.command)
             /\ after[k].readyState = "OPEN"
             /\ \A j \in 1..Len(sockets) : j # k => after[j] = sockets[j]

\* a step that puts a frame on a socket, or that changes no socket, leaves
\* the connection map as it was
SendStep ==
  (/\ Len(sockets') = Len(sockets)
   /\ \A i \in 1..Len(sockets) : sockets'[i].readyState = sockets[i].readyState)
    => conns' = conns

\* C29: a send that throws is answered 500, no frame goes out for it and
\* the connection map stays as it was; a send answered ok put the command
\* once on exactly one connection, the one registered under the deviceId
\* and OPEN, and left the connection map as it was.
C29_SendOnceOrFail == []SendEffect /\ [][SendStep]_vars

\* A is connected and has received C1; a second send to A that throws is
\* answered 500
C29_Witness ==
  /\ IsPush
  /\ A \in DOMAIN conns
  /\ sockets[conns[A]].readyState = "OPEN"
  /\ sockets[conns[A]].frames = <<C1>>
  /\ PushCommandResponse([deviceId |-> A, command |-> C2], TRUE).status = 500
  /\ PushCommandSockets([deviceId |-> A, command |-> C2], TRUE) = sockets

\* C30: every id GET /api/devices lists has a registered connection that is
\* OPEN, and a POST /api/command to it is not answered 404.
C30_ListedIsOpen ==
  \A id \in PushDevicesResponse.online :
    /\ id \in DOMAIN conns
    /\ sockets[conns[id]].readyState = "OPEN"
    /\ \A c \in Commands :
         PushCommandResponse([deviceId |-> id, command |-> c], FALSE).status
           # 404

---------------------------------------------------------------------------
(* Claims about the keys and the metadata of the poll hubs *)

\* C22: a queue that holds commands, filed under the deviceId a POST
\* /api/command was accepted with, is the queue GET /api/pull with that
\* deviceId reads from and DELETE /api/devices/:id with that id removes.
C22_SameKey ==
  \A k \in DOMAIN queues :
    queues[k] # <<>> =>
      /\ PullResponse([deviceId |-> k]).status = 200
      /\ PullResponse([deviceId |-> k]).command = Head(queues[k])
      /\ k \notin DOMAIN MapDelete(queues, DeleteId(k))

\* C23: every record of the device map is stored under a non-empty id.
C23_NoEmptyId ==
  \A i \in 1..Len(devices) : devices[i].id # <<>>

\* C24: after an accepted heartbeat the stored hostname, username and os
\* equal the values the heartbeat supplied, the empty string included.
C24_LastWriterWins ==
  \A b \in MetaHeartbeatBodies, r \in MetaReqs :
    HeartbeatResponse(b).status = 200 =>
      LET rec == GetDevice(HeartbeatDevices(b, r), HeartbeatId(b))
      IN  /\ b.hostname # undefined => rec.hostname = b.hostname
          /\ b.username # undefined => rec.username = b.username
          /\ b.os # undefined => rec.os = b.os

---------------------------------------------------------------------------
(* Claims about the two headers of the operator *)

S4 == <<"s", "4">>

\* requests that carry both headers, either or none
BothHeaders ==
  {[xAdminToken |-> x, authorization |-> a] :
     x \in {undefined, <<>>, Secret, S4},
     a \in {undefined, <<>>, Bearer \o Secret, Bearer \o S4}}

\* C28: with an operator token configured, a request that carries the token
\* in x-admin-token or as the bearer value of authorization passes
\* requireAdmin whatever the other header holds, and a request of which
\* neither header carries it is answered 401.
C28_EitherHeader ==
  (variant = "gated" /\ ADMIN_TOKEN # <<>>) =>
    \A h \in BothHeaders :
      LET presented ==
            \/ h.xAdminToken = ADMIN_TOKEN
            \/ h.authorization = Bearer \o ADMIN_TOKEN
      IN  /\ requireAdmin(h) <=> presented
          /\ GetQueuesResponse(h).status = IF presented THEN 200 ELSE 401

---------------------------------------------------------------------------
(* Claims about what a request leaves alone *)

\* C25: an accepted DELETE leaves neither a record nor a queue of its id:
\* a pull after it is handed nothing that was enqueued before it, only what
\* is enqueued after it; the next contact stores a new record that is
\* listed online with an empty hostname, username and os, or with those the
\* contact supplies.
C25_DeleteForgets ==
  \A h \in Headers, p \in DeleteParams :
    DeleteDeviceResponse(h, p).status = 200 =>
      LET id == DeleteId(p)
          d1 == DeleteDevices(h, p)
          q1 == DeleteQueues(h, p)
      IN  /\ ~HasDevice(d1, id)
          /\ id \notin DOMAIN q1
          /\ dequeued(q1, id) = null
          /\ dequeue(q1, id) = q1
          /\ \A c \in Commands :
               /\ dequeued(enqueue(q1, id, c), id) = c
               /\ dequeued(dequeue(enqueue(q1, id, c), id), id) = null
          /\ \A r \in Reqs, partial \in Partials :
               LET d2 == seen(d1, now, id, r, partial)
                   rec == GetDevice(d2, id)
               IN  /\ HasDevice(d2, id)
                   /\ rec.hostname = OrElse(partial.hostname, <<>>)
                   /\ rec.username = OrElse(partial.username, <<>>)
                   /\ rec.os = OrElse(partial.os, <<>>)
                   /\ rec.lastSeen = now
                   /\ \E k \in 1..Len(d2) :
                        /\ DeviceList(d2, now)[k].id = id
                        /\ DeviceList(d2, now)[k].online

\* A has reported its metadata and has a command pending when the operator
\* deletes it: the record and the command are gone, and a pull for A stores
\* a record without the metadata
C25_Witness ==
  /\ HasDevice(devices, A)
  /\ GetDevice(devices, A).hostname = <<"h">>
  /\ Pending(queues, A) # <<>>
  /\ DeleteDeviceResponse(Operator, A).status = 200
  /\ ~HasDevice(DeleteDevices(Operator, A), A)
  /\ dequeued(DeleteQueues(Operator, A), A) = null
  /\ GetDevice(seen(DeleteDevices(Operator, A), now, A, Proxied, NoPartial),
               A).hostname = <<>>

\* the records and the queues of d and q that are not those of id
OtherRecords(d, id) == SelectSeq(d, LAMBDA x : x.id # id)
OtherQueues(q, id) == [k \in DOMAIN q \ {id} |-> q[k]]

\* C26: an accepted pull, heartbeat, command post or DELETE for one id
\* leaves the record and the queue of every other id as they were, and a
\* command posted for one id does not change what a pull for another id is
\* handed.
C26_Isolated ==
  /\ \A q \in PullQueries, r \in Reqs :
       PullResponse(q).status = 200 =>
         /\ OtherRecords(PullDevices(q, r), PullId(q))
              = OtherRecords(devices, PullId(q))
         /\ OtherQueues(PullQueues(q), PullId(q))
              = OtherQueues(queues, PullId(q))
  /\ \A b \in HeartbeatBodies, r \in Reqs :
       HeartbeatResponse(b).status = 200 =>
         /\ OtherRecords(HeartbeatDevices(b, r), HeartbeatId(b))
              = OtherRecords(devices, HeartbeatId(b))
         /\ HeartbeatQueues(b) = queues
  /\ \A h \in Headers, b \in CommandBodies :
       PostCommandResponse(h, b).status = 200 =>
         /\ OtherQueues(PostCommandQueues(h, b), b.deviceId)
              = OtherQueues(queues, b.deviceId)
         /\ OtherRecords(PostCommandDevices(h, b), b.deviceId)
              = OtherRecords(devices, b.deviceId)
         /\ \A q \in PullQueries :
              (PullResponse(q).status = 200 /\ PullId(q) # b.deviceId) =>
                dequeued(PostCommandQueues(h, b), PullId(q))
                  = dequeued(queues, PullId(q))
  /\ \A h \in Headers, p \in DeleteParams :
       DeleteDeviceResponse(h, p).status = 200 =>
         /\ OtherRecords(DeleteDevices(h, p), DeleteId(p))
              = OtherRecords(devices, DeleteId(p))
         /\ OtherQueues(DeleteQueues(h, p), DeleteId(p))
              = OtherQueues(queues, DeleteId(p))

\* A and B are stored and both have a command pending when A is deleted
\* and when A pulls: B's record and B's command stay
C26_Witness ==
  /\ HasDevice(devices, A) /\ HasDevice(devices, B)
  /\ Pending(queues, A) # <<>> /\ Pending(queues, B) # <<>>
  /\ DeleteDeviceResponse(Operator, A).status = 200
  /\ HasDevice(DeleteDevices(Operator, A), B)
  /\ Pending(DeleteQueues(Operator, A), B) = queues[B]
  /\ PullResponse([deviceId |-> A]).command = Head(queues[A])
  /\ Pending(PullQueues([deviceId |-> A]), B) = queues[B]

\* what the operator's posts and the heartbeat leave in any state: the
\* posts leave the device map, and so the list made of it, as it is, and
\* the heartbeat leaves the queue map as it is
NotPresence ==
  /\ \A h \in Headers, b \in CommandBodies :
       /\ PostCommandDevices(h, b) = devices
       /\ DeviceList(PostCommandDevices(h, b), now) = DeviceList(devices, now)
  /\ \A h \in Headers, b \in PsBodies :
       /\ PostPsDevices(h, b) = devices
       /\ DeviceList(PostPsDevices(h, b), now) = DeviceList(devices, now)
  /\ \A b \in HeartbeatBodies : HeartbeatQueues(b) = queues

\* a step that adds a command to a queue changes no record, and a step that
\* changes the hostname of a record changes no queue
NotPresenceStep ==
  /\ (\E k \in DOMAIN queues' :
        Len(queues'[k]) > Len(Pending(queues, k))) => devices' = devices
  /\ (\E id \in DeviceIds(devices) \cap DeviceIds(devices') :
        GetDevice(devices', id).hostname # GetDevice(devices, id).hostname)
       => queues' = queues

\* C27: POST /api/command and POST /api/ps leave the device map as it was:
\* they create no record and change no lastSeen and no online flag, also
\* for an id that was never seen; POST /api/heartbeat leaves every queue as
\* it was.
C27_PostsAreNotPresence == []NotPresence /\ [][NotPresenceStep]_vars

\* B was never seen and has a command pending from a POST /api/ps, and has
\* no record; A has a record and a command pending
C27_Witness ==
  /\ ~HasDevice(devices, B)
  /\ Pending(queues, B) # <<>>
  /\ HasDevice(devices, A)
  /\ Pending(queues, A) # <<>>
  /\ \A k \in 1..Len(devices) : DeviceList(devices, now)[k].id # B

---------------------------------------------------------------------------
(* Claims about the path of an upgrade request *)

\* paths an upgrade request may carry
UpgradePaths == {WsPath, <<"/", "x">>, <<"/">>}

\* C31: whether a push hub accepts an upgrade does not depend on the path of
\* the request, and neither does the id it registers the connection under.
C31_AnyPath ==
  IsPush =>
    \A p1, p2 \in UpgradePaths, d \in {undefined, A}, x \in RandomHex :
      /\ UpgradeAccepted(UpgradeRequest(p1, d, undefined))
           = UpgradeAccepted(UpgradeRequest(p2, d, undefined))
      /\ UpgradeId(UpgradeRequest(p1, d, undefined), x)
           = UpgradeId(UpgradeRequest(p2, d, undefined), x)
      /\ UpgradeConns(UpgradeRequest(p1, d, undefined), x)
           = UpgradeConns(UpgradeRequest(p2, d, undefined), x)

---------------------------------------------------------------------------
(* Claims about the network address of a device *)

\* requests with every kind of address, also a header whose first entry is
\* blank and an empty header
IpReqs ==
  MetaReqs \cup {[xff |-> <<" ", ",", "2">>, remoteAddress |-> <<"9">>],
                 [xff |-> <<>>, remoteAddress |-> undefined]}

\* the first entry of x-forwarded-for without the white space around it
FirstEntry(req) ==
  IF req.xff = undefined THEN <<>> ELSE trim(FirstField(req.xff))

\* the address a contact of id is expected to leave in the record
LastKnownIp(id, req) ==
  IF FirstEntry(req) # <<>> THEN FirstEntry(req)
  ELSE IF req.remoteAddress # undefined /\ req.remoteAddress # <<>>
       THEN req.remoteAddress
  ELSE IF HasDevice(devices, id) THEN GetDevice(devices, id).ip
  ELSE <<>>

\* C38: an accepted pull or heartbeat stores as ip the first entry of
\* x-forwarded-for when that is not empty, else the socket's remote address,
\* and when there is neither, the ip the record had.
C38_LastKnownIp ==
  /\ \A q \in MetaPullQueries, r \in IpReqs :
       PullResponse(q).status = 200 =>
         GetDevice(PullDevices(q, r), PullId(q)).ip = LastKnownIp(PullId(q), r)
  /\ \A b \in MetaHeartbeatBodies, r \in IpReqs :
       HeartbeatResponse(b).status = 200 =>
         GetDevice(HeartbeatDevices(b, r), HeartbeatId(b)).ip
           = LastKnownIp(HeartbeatId(b), r)

\* A was last seen through a proxy and is stored with ip "1": a pull that
\* carries no address keeps "1", and a direct pull stores the socket's "9"
C38_Witness ==
  /\ HasDevice(devices, A)
  /\ GetDevice(devices, A).ip = <<"1">>
  /\ GetDevice(PullDevices([deviceId |-> A], NoAddress), A).ip = <<"1">>
  /\ GetDevice(PullDevices([deviceId |-> A], Direct), A).ip = <<"9">>

---------------------------------------------------------------------------
(* Claims about the counts of the statistics *)

\* the answer to a GET /stats that carries the configured token
Stats == GetStatsResponse([token |-> STATS_TOKEN])

\* every stored id has been seen, and the authorised answer counts at least
\* as many installed as active and offline together, which are as many as
\* the stored records
CountsAgree ==
  /\ DeviceIds(devices) \subseteq everSeen
  /\ Stats.status = 200 =>
       /\ Stats.installed >= Stats.active + Stats.offline
       /\ Stats.active + Stats.offline = Len(devices)
       /\ Stats.active + Stats.offline = Cardinality(DeviceIds(devices))

\* no step takes an id out of the ids seen or lowers the installed count;
\* a step that removes a record leaves the ids seen as they were
InstalledGrows ==
  /\ everSeen \subseteq everSeen'
  /\ Stats.status = 200 => Stats'.installed >= Stats.installed
  /\ DeviceIds(devices') # DeviceIds(devices) \cup DeviceIds(devices')
       => everSeen' = everSeen

\* C36: in the hub with statistics every stored id is among the ids seen,
\* so installed >= active + offline and active + offline is the number of
\* stored records; installed never decreases, also when a device is
\* deleted.
C36_InstalledCoversStored == []CountsAgree /\ [][InstalledGrows]_vars

\* A was seen and deleted and has contacted the hub again, B was seen and
\* deleted: one record is stored and two are counted as installed
C36_Witness ==
  /\ Stats.status = 200
  /\ Stats.installed = 2
  /\ Stats.active + Stats.offline = 1
  /\ deletedSet = {A, B}
  /\ DeviceIds(devices) = {A}

\* C37: every deleted id was seen before, so deleted <= installed, and no
\* id is both among the deleted and among the stored records.
C37_DeletedWereSeen ==
  /\ deletedSet \subseteq everSeen
  /\ Stats.status = 200 => Stats.deleted <= Stats.installed
  /\ DeviceIds(devices) \cap deletedSet = {}

---------------------------------------------------------------------------
(* Claims about the loop of the polling agent *)

Running == pc \in {"dispatch", "written"}

\* what every step of the agent and the hub satisfies: the hub is contacted
\* only from the heartbeat and the pull of the loop; a pull takes at most
\* one command; while a command runs no record and no answer changes and
\* nothing is taken from the queue; the heartbeat follows the sleep, the
\* pull follows the heartbeat, and a command that has returned is followed
\* by the sleep
OneAtATimeStep ==
  /\ devices' # devices => pc \in {"heartbeat", "pull"}
  /\ Len(Pending(queues', DeviceId)) < Len(Pending(queues, DeviceId)) =>
       /\ pc = "pull"
       /\ Pending(queues', DeviceId) = Tail(Pending(queues, DeviceId))
  /\ Running =>
       /\ devices' = devices
       /\ resp' = resp
       /\ IsPrefix(Pending(queues, DeviceId), Pending(queues', DeviceId))
  /\ (pc' = "heartbeat" /\ pc # "heartbeat") => pc = "sleep"
  /\ (pc' = "pull" /\ pc # "pull") => pc = "heartbeat"
  /\ (pc = "pull" /\ pc' # "pull") => pc' \in {"dispatch", "sleep"}
  /\ (Running /\ ~Running') => pc' = "sleep"
  /\ (pc' = "sleep" /\ pc # "sleep") => (Running \/ pc = "pull")

\* the command that runs is the one the last pull returned, and that pull
\* was the device's last contact
OneAtATime ==
  Running =>
    /\ HasCommand(resp)
    /\ HasDevice(devices, DeviceId)
    /\ GetDevice(devices, DeviceId).lastSeen <= now

\* C32: an iteration of the loop is one heartbeat, then one pull, then at
\* most one command run until it returns, then the sleep; while a command
\* runs the agent neither pulls nor sends a heartbeat, so a command that
\* does not exit leaves lastSeen where it is and the device goes stale.
C32_OneAtATime == []OneAtATime /\ [][OneAtATimeStep]_vars

\* a command has run for longer than the online window: the device is
\* stale and a second command waits in its queue
C32_Witness ==
  /\ pc = "dispatch"
  /\ resp.command = C1
  /\ HasDevice(devices, DeviceId)
  /\ ~online(GetDevice(devices, DeviceId), now)
  /\ Pending(queues, DeviceId) # <<>>

\* the commands a queue of the agent's device may hold
AgentCommands == {b.command : b \in AgentCommandBodies}

Range(s) == {s[i] : i \in 1..Len(s)}

\* as many pulls that are answered as commands are pending hand out the
\* pending commands, one each, and leave the queue empty
DrainedByPulls ==
  LET k == Len(Pending(queues, DeviceId))
      end == ServeAll([q |-> queues, out |-> <<>>], DeviceId,
                      [i \in 1..k |-> [op |-> "pull", command |-> null]])
  IN  /\ end.out = Pending(queues, DeviceId)
      /\ Pending(end.q, DeviceId) = <<>>
      /\ k > 0 =>
           /\ HttpGetJson("answered").command = Head(Pending(queues, DeviceId))
           /\ Len(Pending(PullQueues(AgentQuery), DeviceId)) = k - 1

C34_HandedOutIsRun ==
  pc = "pull" =>
    \A o \in PullOutcomes \ {"unreached"} :
      (/\ PullResponse(AgentQuery).status = 200
       /\ PullResponse(AgentQuery).command # null) =>
        /\ HasCommand(HttpGetJson(o))
        /\ HttpGetJson(o).command = PullResponse(AgentQuery).command
        /\ AfterPull(o) = "dispatch"

\* commands a pull may return: some that only resemble the tag
ShellCommands ==
  AgentCommands
    \cup {SubSeq(PSB64Tag, 1, Len(PSB64Tag) - 1) \o <<"x">>,
          <<" ">> \o PSB64Tag \o <<"A", "A", "A", "A">>,
          PSB64Tag,
          <<"e", "c", "h", "o", " ", "1">>}

\* C35: a pulled command goes to Run-PSB64 exactly when it starts with
\* "__PSB64__:"; every other non-empty command goes to Run-Plain, which
\* hands it unchanged to the shell after "/c "; an empty command, a null
\* command and no answer run nothing.
C35_TagDecides ==
  /\ \A c \in ShellCommands :
       /\ HasCommand([command |-> c])
       /\ Runner(c) \in {"Run-PSB64", "Run-Plain"}
       /\ Runner(c) = "Run-PSB64" <=>
            /\ Len(c) >= Len(PSB64Tag)
            /\ SubSeq(c, 1, Len(PSB64Tag)) = PSB64Tag
       /\ Runner(c) = "Run-Plain" =>
            /\ SubSeq(RunPlainArguments(c), 1, 3) = <<"/", "c", " ">>
            /\ SubSeq(RunPlainArguments(c), 4, Len(RunPlainArguments(c))) = c
  /\ ~HasCommand([command |-> <<>>])
  /\ ~HasCommand([command |-> null])
  /\ ~HasCommand(PsNull)
  /\ \A o \in PullOutcomes :
       ~HasCommand(HttpGetJson(o)) => AfterPull(o) = "sleep"
  /\ pc = "dispatch" => HasCommand(resp)
  /\ pc = "written" => Runner(resp.command) = "Run-PSB64"

\* the agent has pulled the tagged script and written it to a file, and
\* would have handed C1 to Run-Plain
C35_Witness ==
  /\ pc = "written"
  /\ resp.command = Tagged(GetDate)
  /\ Runner(resp.command) = "Run-PSB64"
  /\ Runner(C1) = "Run-Plain"
  /\ RunPlainArguments(C1) = <<"/", "c", " ", "c", "1">>

============================================================================
